---- MODULE Spec2Model ----
(***************************************************************************)
(* Model of the relay connection handler of the Mage Hand module:          *)
(* WebSocketHandler and MobileClient of src/scripts/ability-roller.js,     *)
(* with the callers of connect()/disconnect() in src/scripts/ui/base-ui.js.*)
(* Every action is one run-to-completion event of the JavaScript event     *)
(* loop: a call of the public API, a transport event, or a timer callback. *)
(***************************************************************************)
EXTENDS Integers, Sequences, FiniteSets, Bags, TLC

VARIABLES
    socket,             \* this.socket: "null" or the readyState of the transport
    others,             \* readyStates of the live transports this.socket no
                        \* longer references (their handlers stay attached)
    sessionCode,        \* this.sessionCode
    connectionState,    \* this.connectionState
    reconnectAttempts,  \* this.reconnectAttempts
    heartbeatInterval,  \* this.heartbeatInterval is set (interval active)
    mobileClients,      \* this.mobileClients: clientId -> MobileClient
    clientSnapshots,    \* this.clientSnapshots: clientId -> actorId
    timers,             \* delays of the pending setTimeout callbacks of
                        \* attemptReconnect
    sessionFlag,        \* user flag 'session' of game.user
    sent,               \* messages written to the transport by the last event
    ev,                 \* the last event and its inputs
    trail,              \* arguments of updateConnectionState in the last event
    scheduled,          \* reconnect attempts scheduled since the last connect()
    userDisconnected,   \* disconnect() was called after the last connect()
    patch,              \* the snapshots given to deepDiff and applyDiff, and
                        \* what the two returned
    SCHEMAS,            \* SchemaRegistry.SCHEMAS: the registered versions, in
                        \* the order of their insertion
    call,               \* the arguments of a call of the SchemaRegistry and
                        \* what the call returned
    characterData,      \* MageHand.characterData: actor id -> last snapshot
    update,             \* the last change handled by handleActorUpdate
    roller              \* the BaseRoller instance and the calls of its rolls

vars == <<socket, others, sessionCode, connectionState, reconnectAttempts,
          heartbeatInterval, mobileClients, clientSnapshots, timers,
          sessionFlag, sent, ev, trail, scheduled, userDisconnected, patch,
          SCHEMAS, call, characterData, update, roller>>

----------------------------------------------------------------------------
(* Bounds of the model *)

MaxStale == 1
MaxTimers == 1

(* Program constants *)

maxReconnectAttempts == 3
reconnectDelay == 1000
ourSchema == "1.0.0"

Undefined == "undefined"
Null == "null"
Throw == <<"throw">>
NullCode == <<>>              \* this.sessionCode = null
UndefinedList == <<Undefined>> \* an absent array field

ConnectionState ==
    {"DISCONNECTED", "JOINING", "JOINED", "INIT", "SETUP", "PLAY", "SUSPENDED"}

PlayTypes ==
    {"PLAY:USE:ITEM", "PLAY:CHECK:ABILITY", "PLAY:SAVE:ABILITY",
     "PLAY:CHECK:SKILL", "PLAY:ATTACK:WEAPON", "PLAY:CAST:SPELL",
     "PLAY:ROLL:CUSTOM"}

----------------------------------------------------------------------------
(* Session codes are strings, modelled as sequences of characters *)

Str3(a, b, c) == <<a, b, c>>
Code(r, x, y) == r \o <<"-">> \o x \o <<"-">> \o y

CodeNYC == Code(Str3("N","Y","C"), Str3("A","B","C"), Str3("1","2","3"))
CodeZZZ == Code(Str3("Z","Z","Z"), Str3("A","B","C"), Str3("1","2","3"))
CodeShort == Code(Str3("N","Y","C"), <<"A","B">>, Str3("1","2","3"))

SessionCodes == {CodeNYC, CodeZZZ, CodeShort}

RECURSIVE SplitFrom(_, _, _)
SplitFrom(s, i, cur) ==
    IF i > Len(s) THEN <<cur>>
    ELSE IF s[i] = "-" THEN <<cur>> \o SplitFrom(s, i + 1, <<>>)
    ELSE SplitFrom(s, i + 1, Append(cur, s[i]))

Split(s) == SplitFrom(s, 1, <<>>)

LowerCaseOf ==
    [c \in {"N","Y","C","S","F","O","A","M","L","R","T","G","P","B","Z"} |->
       CASE c = "N" -> "n" [] c = "Y" -> "y" [] c = "C" -> "c"
         [] c = "S" -> "s" [] c = "F" -> "f" [] c = "O" -> "o"
         [] c = "A" -> "a" [] c = "M" -> "m" [] c = "L" -> "l"
         [] c = "R" -> "r" [] c = "T" -> "t" [] c = "G" -> "g"
         [] c = "P" -> "p" [] c = "B" -> "b" [] c = "Z" -> "z"]

toLowerCase(s) ==
    [i \in 1..Len(s) |-> IF s[i] \in DOMAIN LowerCaseOf THEN LowerCaseOf[s[i]] ELSE s[i]]

regionUrls ==
    {<<"n","y","c">>, <<"s","f","o">>, <<"a","m","s">>, <<"l","o","n">>,
     <<"f","r","a">>, <<"t","o","r">>, <<"s","g","p">>, <<"b","l","r">>}

getServerUrl(code) ==
    LET parts == Split(code) IN
    IF Len(parts) # 3 THEN Throw
    ELSE IF toLowerCase(parts[1]) \in regionUrls THEN toLowerCase(parts[1])
    ELSE Throw

----------------------------------------------------------------------------
(* Maps (JavaScript Map objects) are functions on the set of their keys *)

EmptyMap == [k \in {} |-> Null]
MapSet(m, k, v) == [x \in DOMAIN m \cup {k} |-> IF x = k THEN v ELSE m[x]]
MapDelete(m, k) == [x \in DOMAIN m \ {k} |-> m[x]]

----------------------------------------------------------------------------
(* The handler's fields and its environment, as one record threaded        *)
(* through the statements of a handler                                     *)

Self ==
    [socket |-> socket, others |-> others, sessionCode |-> sessionCode,
     connectionState |-> connectionState,
     reconnectAttempts |-> reconnectAttempts,
     heartbeatInterval |-> heartbeatInterval,
     mobileClients |-> mobileClients, clientSnapshots |-> clientSnapshots,
     timers |-> timers, sessionFlag |-> sessionFlag,
     sent |-> <<>>, trail |-> <<>>, invoked |-> "none", thrown |-> FALSE,
     returned |-> Undefined, scheduled |-> scheduled,
     userDisconnected |-> userDisconnected, overflow |-> FALSE]

stopHeartbeat(h) == [h EXCEPT !.heartbeatInterval = FALSE]

updateConnectionState_KeepTimer(h, newState) ==
    [h EXCEPT !.connectionState = newState,
              !.trail = Append(@, <<h.connectionState, newState>>)]

updateConnectionState(h, newState) ==
    LET oldState == h.connectionState
        h1 == [h EXCEPT !.connectionState = newState,
                        !.trail = Append(@, <<oldState, newState>>)]
    IN  IF oldState = "PLAY" /\ newState # "PLAY" THEN stopHeartbeat(h1) ELSE h1

startHeartbeat(h) ==
    IF h.connectionState # "PLAY" THEN h
    ELSE [stopHeartbeat(h) EXCEPT !.heartbeatInterval = TRUE]

socketIsOpen(h) == h.socket = "OPEN"

OutMsg ==
    [type |-> Undefined, from |-> Undefined, to |-> Undefined,
     reason |-> Undefined, schema |-> Undefined, features |-> UndefinedList,
     state |-> Undefined, data |-> Undefined]

sendMessage(h, message) ==
    IF ~socketIsOpen(h) THEN h
    ELSE LET m == IF message.type # "PRE:JOIN" /\ message.from = Undefined
                  THEN [message EXCEPT !.from = "host"] ELSE message
         IN  [h EXCEPT !.sent = Append(@, m)]

\* a transport that this.socket no longer references stays alive, with the
\* handlers of setupEventHandlers attached, until its close event
release(h) ==
    IF h.socket \in {"CONNECTING", "OPEN", "CLOSING"}
    THEN [h EXCEPT !.others = @ (+) SetToBag({h.socket}),
                   !.overflow = @ \/ BagCardinality(h.others) >= MaxStale]
    ELSE h

newWebSocket(h) == [release(h) EXCEPT !.socket = "CONNECTING"]

connect(h0, code) ==
    LET h == [h0 EXCEPT !.scheduled = 0, !.userDisconnected = FALSE] IN
    IF socketIsOpen(h) THEN h
    ELSE LET h1 == [h EXCEPT !.sessionCode = code, !.reconnectAttempts = 0] IN
         IF getServerUrl(code) = Throw
         THEN updateConnectionState(h1, "DISCONNECTED")
         ELSE updateConnectionState(newWebSocket(h1), "JOINING")

onOpen(h) ==
    sendMessage(h,
        [OutMsg EXCEPT !.type = "PRE:JOIN", !.data = h.sessionCode,
                       !.state = IF h.connectionState # "DISCONNECTED"
                                 THEN h.connectionState ELSE Undefined])

\* a variant with a linear backoff
ReconnectDelayFor_Linear(k) == reconnectDelay * k

ReconnectDelayFor(k) == reconnectDelay * 2 ^ (k - 1)

attemptReconnect(h) ==
    LET h1 == [h EXCEPT !.reconnectAttempts = @ + 1] IN
    IF h1.reconnectAttempts > maxReconnectAttempts
    THEN updateConnectionState(h1, "DISCONNECTED")
    ELSE LET delay == ReconnectDelayFor(h1.reconnectAttempts)
             h2 == updateConnectionState(h1, "SUSPENDED")
         IN  [h2 EXCEPT !.timers = @ (+) SetToBag({delay}),
                        !.scheduled = @ + 1,
                        !.overflow = @ \/ BagCardinality(h2.timers) >= MaxTimers]

\* the time to live of a session record, and Date.now()
SessionTTL == 86400000
Now == 2 * SessionTTL

NoFlag == [present |-> FALSE, code |-> NullCode, valid |-> FALSE, timestamp |-> 0]

unsetFlag(h) == [h EXCEPT !.sessionFlag = NoFlag]

setFlag(h, code) ==
    [h EXCEPT !.sessionFlag = [present |-> TRUE, code |-> code, valid |-> TRUE,
                               timestamp |-> Now]]

\* a variant that treats a version mismatch (4003) as an unexpected closure
onClose_RetryOnMismatch(h, code) ==
    LET h1 == stopHeartbeat(h) IN
    CASE code \in {1000, 4002} -> updateConnectionState(h1, "DISCONNECTED")
      [] code \in {4000, 4001} -> unsetFlag(updateConnectionState(h1, "DISCONNECTED"))
      [] OTHER ->
           IF h1.reconnectAttempts < maxReconnectAttempts
           THEN attemptReconnect(h1)
           ELSE updateConnectionState(h1, "DISCONNECTED")

\* a variant that also forgets the session on a malformed code (4002)
onClose_ForgetOnMalformed(h, code) ==
    LET h1 == stopHeartbeat(h) IN
    CASE code \in {1000, 4003} -> updateConnectionState(h1, "DISCONNECTED")
      [] code \in {4000, 4001, 4002} ->
           unsetFlag(updateConnectionState(h1, "DISCONNECTED"))
      [] OTHER ->
           IF h1.reconnectAttempts < maxReconnectAttempts
           THEN attemptReconnect(h1)
           ELSE updateConnectionState(h1, "DISCONNECTED")

onClose(h, code) ==
    LET h1 == stopHeartbeat(h) IN
    CASE code = 1000 -> updateConnectionState(h1, "DISCONNECTED")
      [] code = 4000 -> unsetFlag(updateConnectionState(h1, "DISCONNECTED"))
      [] code = 4001 -> unsetFlag(updateConnectionState(h1, "DISCONNECTED"))
      [] code = 4002 -> updateConnectionState(h1, "DISCONNECTED")
      [] code = 4003 -> updateConnectionState(h1, "DISCONNECTED")
      [] OTHER ->
           IF h1.reconnectAttempts < maxReconnectAttempts
           THEN attemptReconnect(h1)
           ELSE updateConnectionState(h1, "DISCONNECTED")

reconnectTimer(h) ==
    IF h.sessionCode # NullCode /\ h.reconnectAttempts <= maxReconnectAttempts
    THEN IF getServerUrl(h.sessionCode) = Throw
         THEN updateConnectionState(h, "DISCONNECTED")
         ELSE newWebSocket(h)
    ELSE h

socketClose(h) ==
    IF h.socket \in {"CONNECTING", "OPEN"}
    THEN [h EXCEPT !.socket = "CLOSING"] ELSE h

\* a variant that keeps the snapshots of the companions
disconnect_KeepSnapshots(h) ==
    LET h1 == stopHeartbeat(h)
        h2 == IF h1.socket # "null"
              THEN [release(socketClose(h1)) EXCEPT !.socket = "null"] ELSE h1
        h3 == updateConnectionState(h2, "DISCONNECTED")
    IN  [h3 EXCEPT !.mobileClients = EmptyMap, !.userDisconnected = TRUE]

disconnect(h) ==
    LET h1 == stopHeartbeat(h)
        h2 == IF h1.socket # "null"
              THEN [release(socketClose(h1)) EXCEPT !.socket = "null"] ELSE h1
        h3 == updateConnectionState(h2, "DISCONNECTED")
    IN  [h3 EXCEPT !.mobileClients = EmptyMap, !.clientSnapshots = EmptyMap,
                   !.userDisconnected = TRUE]

heartbeatTick(h) ==
    IF h.connectionState = "PLAY"
    THEN sendMessage(h, [OutMsg EXCEPT !.type = "HEARTBEAT"])
    ELSE stopHeartbeat(h)


----------------------------------------------------------------------------
(* The game world the handlers read: game.actors, game.users, the extractor *)

ClientIds == {"m1", "m2"}
GameActors == {"a1"}
GameUsers == {"p1"}
extractCharacterData(actorId) ==
    CASE actorId = "a1" -> "snapshot:a1" [] OTHER -> "snapshot"

(* class MobileClient *)

MobileClient(clientId) ==
    [state |-> "JOINED",
     stateData |-> [schemaVersion |-> "1.0.0", enabledFeatures |-> <<>>,
                    selectedPlayer |-> Null, selectedActor |-> Null]]

updateState(client, newState) == [client EXCEPT !.state = newState]

(* Inbound messages: one record shape, unused fields undefined *)

InMsg ==
    [type |-> Undefined, from |-> Undefined,
     capabilities |-> [present |-> FALSE, schemaVersion |-> Undefined,
                       supportedFeatures |-> UndefinedList],
     arg |-> Undefined]

Capabilities(version, features) ==
    [present |-> TRUE, schemaVersion |-> version, supportedFeatures |-> features]

handlePreJoinAck(h, message) == updateConnectionState(h, "JOINED")

handlePreJoinResume(h, message) == updateConnectionState(h, message.arg)

handlePreJoinReset(h, message) ==
    LET h1 == updateConnectionState(h, "DISCONNECTED") IN
    IF h1.sessionCode # NullCode THEN connect(h1, h1.sessionCode) ELSE h1

handlePreJoined(h, message) ==
    LET h1 == updateConnectionState(h, "JOINED")
        mobile == {i \in 1..Len(message.arg) : message.arg[i].clientType = "mobile"}
    IN  [h1 EXCEPT !.mobileClients =
            [c \in {message.arg[i].clientId : i \in mobile} |-> MobileClient(c)]]

\* a variant that advances the companion before it checks the schema
handleInitHelo_AdvanceFirst(h, message) ==
    LET mobileClientId == message.from
        h1 == [h EXCEPT !.mobileClients =
                  MapSet(@, mobileClientId,
                         updateState(MobileClient(mobileClientId), "INIT"))]
        mobileCapabilities == message.capabilities
    IN
    IF ~mobileCapabilities.present THEN h1
    ELSE IF mobileCapabilities.schemaVersion # ourSchema
    THEN sendMessage(h1, [OutMsg EXCEPT !.type = "INIT:DENY",
                                        !.to = mobileClientId,
                                        !.reason = "SCHEMA_MISMATCH"])
    ELSE
      LET h3 == updateConnectionState(h1, "INIT")
          h4 == sendMessage(h3, [OutMsg EXCEPT
                   !.type = "INIT:HELO", !.to = mobileClientId,
                   !.schema = ourSchema,
                   !.features = <<"combat", "spells", "items", "vision">>])
          h5 == sendMessage(h4, [OutMsg EXCEPT
                   !.type = "INIT:HELO:ACK", !.to = mobileClientId,
                   !.schema = ourSchema,
                   !.features = mobileCapabilities.supportedFeatures])
      IN  updateConnectionState(h5, "SETUP")

\* a variant that acknowledges with the features it stored for the companion
handleInitHelo_StoredFeatures(h, message) ==
    LET mobileClientId == message.from
        h1 == IF mobileClientId \in DOMAIN h.mobileClients THEN h
              ELSE [h EXCEPT !.mobileClients =
                       MapSet(@, mobileClientId, MobileClient(mobileClientId))]
        mobileCapabilities == message.capabilities
    IN
    IF ~mobileCapabilities.present THEN h1
    ELSE IF mobileCapabilities.schemaVersion # ourSchema
    THEN sendMessage(h1, [OutMsg EXCEPT !.type = "INIT:DENY",
                                        !.to = mobileClientId,
                                        !.reason = "SCHEMA_MISMATCH"])
    ELSE
      LET features == mobileCapabilities.supportedFeatures
          h2 == [h1 EXCEPT
                   !.mobileClients[mobileClientId].state = "INIT",
                   !.mobileClients[mobileClientId].stateData.schemaVersion =
                       mobileCapabilities.schemaVersion,
                   !.mobileClients[mobileClientId].stateData.enabledFeatures =
                       IF features = UndefinedList THEN <<>> ELSE features]
          h3 == updateConnectionState(h2, "INIT")
          h4 == sendMessage(h3, [OutMsg EXCEPT
                   !.type = "INIT:HELO", !.to = mobileClientId,
                   !.schema = ourSchema,
                   !.features = <<"combat", "spells", "items", "vision">>])
          h5 == sendMessage(h4, [OutMsg EXCEPT
                   !.type = "INIT:HELO:ACK", !.to = mobileClientId,
                   !.schema = ourSchema,
                   !.features =
                       h2.mobileClients[mobileClientId].stateData.enabledFeatures])
      IN  updateConnectionState(h5, "SETUP")

handleInitHelo(h, message) ==
    LET mobileClientId == message.from
        h1 == IF mobileClientId \in DOMAIN h.mobileClients THEN h
              ELSE [h EXCEPT !.mobileClients =
                       MapSet(@, mobileClientId, MobileClient(mobileClientId))]
        mobileCapabilities == message.capabilities
    IN
    IF ~mobileCapabilities.present THEN h1    \* TypeError, caught by onMessage
    ELSE IF mobileCapabilities.schemaVersion # ourSchema
    THEN sendMessage(h1, [OutMsg EXCEPT !.type = "INIT:DENY",
                                        !.to = mobileClientId,
                                        !.reason = "SCHEMA_MISMATCH"])
    ELSE
      LET features == mobileCapabilities.supportedFeatures
          h2 == [h1 EXCEPT
                   !.mobileClients[mobileClientId].state = "INIT",
                   !.mobileClients[mobileClientId].stateData.schemaVersion =
                       mobileCapabilities.schemaVersion,
                   !.mobileClients[mobileClientId].stateData.enabledFeatures =
                       IF features = UndefinedList THEN <<>> ELSE features]
          h3 == updateConnectionState(h2, "INIT")
          h4 == sendMessage(h3, [OutMsg EXCEPT
                   !.type = "INIT:HELO", !.to = mobileClientId,
                   !.schema = ourSchema,
                   !.features = <<"combat", "spells", "items", "vision">>])
          h5 == sendMessage(h4, [OutMsg EXCEPT
                   !.type = "INIT:HELO:ACK", !.to = mobileClientId,
                   !.schema = ourSchema, !.features = features])
      IN  updateConnectionState(h5, "SETUP")

\* a variant that moves every tracked companion to SETUP
handleInitHeloAck_AllClients(h, message) ==
    updateConnectionState(
        [h EXCEPT !.mobileClients =
            [c \in DOMAIN @ |-> updateState(@[c], "SETUP")]], "SETUP")

handleInitHeloAck(h, message) ==
    LET h1 == IF message.from \in DOMAIN h.mobileClients
              THEN [h EXCEPT !.mobileClients[message.from].state = "SETUP"]
              ELSE h
    IN  updateConnectionState(h1, "SETUP")

handleInitReqState(h, message) ==
    \* the log statement before sendMessage reads the undeclared
    \* requestingToken: ReferenceError, caught by onMessage, nothing is sent
    IF message.from \in DOMAIN h.mobileClients THEN h
    ELSE [h EXCEPT !.mobileClients =
             MapSet(@, message.from, MobileClient(message.from))]

handleSetupReqPlayers(h, message) ==
    sendMessage(h, [OutMsg EXCEPT !.type = "SETUP:SEND:PLAYERS",
                                  !.data = GameUsers])

handleSetupReqActors(h, message) ==
    LET known == message.arg \in GameUsers
        h1 == IF message.from \in DOMAIN h.mobileClients /\ known
              THEN [h EXCEPT !.mobileClients[message.from].stateData.selectedPlayer =
                        message.arg]
              ELSE h
    IN  IF ~known THEN h1     \* user.id of undefined: TypeError, caught
        ELSE sendMessage(h1, [OutMsg EXCEPT !.type = "SETUP:SEND:ACTORS",
                                            !.data = message.arg])

handleSetupReqActor(h, message) ==
    IF message.arg \notin GameActors THEN h
    ELSE LET actorData == extractCharacterData(message.arg)
             h1 == sendMessage(h, [OutMsg EXCEPT !.type = "SETUP:SEND:ACTOR",
                                                 !.data = actorData])
         IN  IF message.from # Undefined
             THEN [h1 EXCEPT !.clientSnapshots =
                      MapSet(@, message.from, message.arg)]
             ELSE h1

handleSetupActorAck(h, message) ==
    LET mobileClientId == message.from
        h1 == IF mobileClientId \in DOMAIN h.mobileClients
              THEN LET c1 == updateState(h.mobileClients[mobileClientId], "PLAY")
                       c2 == IF message.arg # Undefined /\ message.arg \in GameActors
                             THEN [c1 EXCEPT !.stateData.selectedActor =
                                      extractCharacterData(message.arg)]
                             ELSE c1
                   IN  [h EXCEPT !.mobileClients[mobileClientId] = c2]
              ELSE h
        h2 == updateConnectionState(h1, "PLAY")
    IN  startHeartbeat(h2)

handlePlayMessage(h, message) == [h EXCEPT !.invoked = message.type]

handleConnectionSuspended(h, message) == stopHeartbeat(h)

handleConnectionResumed(h, message) == h

\* a variant that drops the whole roster when one companion is lost
handleConnectionLost_ClearAll(h, message) ==
    LET h1 == stopHeartbeat(h) IN
    IF message.from # Undefined
    THEN [h1 EXCEPT !.mobileClients = EmptyMap,
                    !.clientSnapshots = MapDelete(@, message.from)]
    ELSE h1

handleConnectionLost(h, message) ==
    LET h1 == stopHeartbeat(h) IN
    IF message.from # Undefined
    THEN [h1 EXCEPT !.mobileClients = MapDelete(@, message.from),
                    !.clientSnapshots = MapDelete(@, message.from)]
    ELSE h1

handleError(h, message) ==
    IF message.arg = "INVALID_STATE" THEN stopHeartbeat(h) ELSE h

\* a variant that answers only in PLAY
handleHeartbeat_OnlyInPlay(h, message) ==
    IF h.connectionState = "PLAY"
    THEN sendMessage(h, [OutMsg EXCEPT !.type = "PONG"]) ELSE h

handleHeartbeat(h, message) == sendMessage(h, [OutMsg EXCEPT !.type = "PONG"])

\* the switch of onMessage
routeMessage(h, message) ==
    CASE message.type = "PRE:JOIN:ACK" -> handlePreJoinAck(h, message)
      [] message.type = "PRE:JOIN:RESUME" -> handlePreJoinResume(h, message)
      [] message.type = "PRE:JOIN:RESET" -> handlePreJoinReset(h, message)
      [] message.type = "PRE:JOINED" -> handlePreJoined(h, message)
      [] message.type = "INIT:HELO" -> handleInitHelo(h, message)
      [] message.type = "INIT:HELO:ACK" -> handleInitHeloAck(h, message)
      [] message.type = "INIT:REQ:STATE" -> handleInitReqState(h, message)
      [] message.type = "SETUP:REQ:PLAYERS" -> handleSetupReqPlayers(h, message)
      [] message.type = "SETUP:REQ:ACTORS" -> handleSetupReqActors(h, message)
      [] message.type = "SETUP:REQ:ACTOR" -> handleSetupReqActor(h, message)
      [] message.type = "SETUP:ACTOR:ACK" -> handleSetupActorAck(h, message)
      [] message.type \in PlayTypes -> handlePlayMessage(h, message)
      [] message.type = "CONNECTION:SUSPENDED" -> handleConnectionSuspended(h, message)
      [] message.type = "CONNECTION:RESUMED" -> handleConnectionResumed(h, message)
      [] message.type = "CONNECTION:LOST" -> handleConnectionLost(h, message)
      [] message.type = "ERROR" -> handleError(h, message)
      [] message.type = "HEARTBEAT" -> handleHeartbeat(h, message)
      [] OTHER -> h      \* PONG, unknown type

\* JSON.parse(event.data): a frame that is not JSON raises a SyntaxError
JSONparse(frame) ==
    IF frame.type = "unparseable"
    THEN [threw |-> TRUE, message |-> InMsg]
    ELSE [threw |-> FALSE, message |-> frame]

\* the try block of onMessage
onMessageTry(h, frame) ==
    LET parsed == JSONparse(frame) IN
    IF parsed.threw THEN [h EXCEPT !.thrown = TRUE]
    ELSE routeMessage(h, parsed.message)

\* a variant without the catch clause
onMessage_NoCatch(h, frame) == onMessageTry(h, frame)

onMessage(h, frame) ==
    LET h1 == onMessageTry(h, frame) IN
    IF h1.thrown THEN [h1 EXCEPT !.thrown = FALSE]    \* catch: logged
    ELSE h1

(* Messages about an actor, sent on the host's initiative *)

\* client.actorId: the constructor of MobileClient declares no such field
\* and no handler assigns it (the chosen actor is kept in
\* stateData.selectedActor), so the read yields undefined
clientActorId(client) == Undefined

\* the loop of sendActorMessage over this.mobileClients
isControlled(h, actorId) ==
    \E c \in DOMAIN h.mobileClients : clientActorId(h.mobileClients[c]) = actorId

\* message.actorId is carried in the field data of the outbound record
sendActorMessage(h, message) ==
    IF message.data = Undefined THEN [h EXCEPT !.returned = "false"]
    ELSE IF ~(h.socket = "OPEN" /\ h.connectionState # "DISCONNECTED")
    THEN [h EXCEPT !.returned = "false"]              \* !this.isConnected()
    ELSE IF DOMAIN h.mobileClients = {} THEN [h EXCEPT !.returned = "false"]
    ELSE IF ~isControlled(h, message.data) THEN [h EXCEPT !.returned = "false"]
    ELSE [sendMessage(h, message) EXCEPT !.returned = "true"]

\* the body of the loop reads the undeclared mobileClientId: a
\* ReferenceError leaves sendActorUpdate at the first client that matches
sendActorUpdate(h, actorId) ==
    IF h.connectionState # "PLAY" THEN h
    ELSE IF \E c \in DOMAIN h.mobileClients :
                clientActorId(h.mobileClients[c]) = actorId
    THEN [h EXCEPT !.thrown = TRUE]
    ELSE h


----------------------------------------------------------------------------
(* utils/deep-diff.js: deepDiff and applyDiff                              *)
(*                                                                         *)
(* A JavaScript value is a record: t is "prim", "arr" or "obj", p the      *)
(* primitive ("n:1" the number 1, "null", "undefined"), items the own      *)
(* properties in insertion order, each a key (a sequence of characters)    *)
(* and a value. An array has its indices as keys.                          *)

Prim(p) == [t |-> "prim", p |-> p, items |-> <<>>]
Item(k, v) == [k |-> k, v |-> v]
Obj(items) == [t |-> "obj", p |-> "", items |-> items]
IndexKey(i) == << <<"0">>, <<"1">>, <<"2">> >>[i]
Arr(values) ==
    [t |-> "arr", p |-> "",
     items |-> [i \in 1..Len(values) |-> Item(IndexKey(i), values[i])]]
UndefinedValue == Prim("undefined")

isPrimitive(value) == value.t = "prim"

HasKey(obj, key) == \E i \in 1..Len(obj.items) : obj.items[i].k = key

\* obj[key]
GetKey(obj, key) ==
    IF HasKey(obj, key)
    THEN obj.items[CHOOSE i \in 1..Len(obj.items) : obj.items[i].k = key].v
    ELSE UndefinedValue

\* Object.keys(obj)
ObjectKeys(obj) == [i \in 1..Len(obj.items) |-> obj.items[i].k]

InSeq(x, seq) == \E i \in 1..Len(seq) : seq[i] = x

\* obj[key] = value
SetKey(obj, key, value) ==
    IF HasKey(obj, key)
    THEN [obj EXCEPT !.items[CHOOSE i \in 1..Len(obj.items) :
                                 obj.items[i].k = key].v = value]
    ELSE [obj EXCEPT !.items = Append(@, Item(key, value))]

\* delete obj[key]
DeleteKey(obj, key) ==
    [obj EXCEPT !.items = SelectSeq(@, LAMBDA it : it.k # key)]

\* a variant in which no two values are the same
strictEqual_Never(a, b) == FALSE

\* a variant that takes no value for an array
isArray_Never(value) == FALSE

isArray(value) == value.t = "arr"

\* a !== b is FALSE for two primitives of one type and value; two objects
\* are the same only by reference
strictEqual(a, b) == isPrimitive(a) /\ isPrimitive(b) /\ a.p = b.p

\* JSON.stringify(value), as a sequence of tokens: undefined becomes null in
\* an array and the property is left out in an object
RECURSIVE JSONstringify(_)
RECURSIVE stringifyItems(_, _, _)
stringifyItems(value, i, first) ==
    IF i > Len(value.items) THEN <<>>
    ELSE LET it == value.items[i] IN
         IF isArray(value)
         THEN (IF first THEN <<>> ELSE <<",">>)
              \o (IF it.v = UndefinedValue THEN <<"null">> ELSE JSONstringify(it.v))
              \o stringifyItems(value, i + 1, FALSE)
         ELSE IF it.v = UndefinedValue THEN stringifyItems(value, i + 1, first)
         ELSE (IF first THEN <<>> ELSE <<",">>)
              \o <<"\"">> \o it.k \o <<"\"", ":">> \o JSONstringify(it.v)
              \o stringifyItems(value, i + 1, FALSE)

JSONstringify(value) ==
    IF isPrimitive(value) THEN <<value.p>>
    ELSE IF isArray(value) THEN <<"[">> \o stringifyItems(value, 1, TRUE) \o <<"]">>
    ELSE <<"{">> \o stringifyItems(value, 1, TRUE) \o <<"}">>

(* A diff is the sequence of its entries in insertion order. An entry whose *)
(* type is "none" is a property that is no change record.                   *)

Change(path, type, old, value) ==
    [path |-> path, type |-> type, old |-> old, value |-> value]

\* diff[path] = change
DiffAssign(diff, change) ==
    IF \E i \in 1..Len(diff) : diff[i].path = change.path
    THEN [diff EXCEPT ![CHOOSE i \in 1..Len(diff) : diff[i].path = change.path] =
              change]
    ELSE Append(diff, change)

\* Object.assign(diff, nestedDiff)
RECURSIVE ObjectAssign(_, _)
ObjectAssign(diff, nestedDiff) ==
    IF nestedDiff = <<>> THEN diff
    ELSE ObjectAssign(DiffAssign(diff, Head(nestedDiff)), Tail(nestedDiff))

\* the object deepDiff returns for values that are no plain objects:
\* {type: 'update', old, value}
UpdateRecord(old, value) ==
    <<Change(<<"type">>, "none", old, value),
      Change(<<"old">>, "none", old, value),
      Change(<<"value">>, "none", old, value)>>

\* new Set([...Object.keys(oldObj), ...Object.keys(newObj)])
AllKeys(oldObj, newObj) ==
    ObjectKeys(oldObj)
    \o SelectSeq(ObjectKeys(newObj), LAMBDA k : ~InSeq(k, ObjectKeys(oldObj)))

RECURSIVE deepDiff(_, _, _, _)
RECURSIVE forEachKey(_, _, _, _, _, _)
\* the callback of allKeys.forEach, for the keys from index i on
forEachKey(oldObj, newObj, path, keys, i, diff) ==
    IF i > Len(keys) THEN diff
    ELSE
      LET key == keys[i]
          currentPath == IF path # <<>> THEN path \o <<".">> \o key ELSE key
          oldValue == GetKey(oldObj, key)
          newValue == GetKey(newObj, key)
          next ==
            IF oldValue = UndefinedValue /\ newValue # UndefinedValue
            THEN DiffAssign(diff, Change(currentPath, "add", UndefinedValue, newValue))
            ELSE IF oldValue # UndefinedValue /\ newValue = UndefinedValue
            THEN DiffAssign(diff, Change(currentPath, "delete", oldValue, UndefinedValue))
            ELSE IF isPrimitive(oldValue) \/ isPrimitive(newValue)
            THEN IF ~strictEqual(oldValue, newValue)
                 THEN DiffAssign(diff, Change(currentPath, "update", oldValue, newValue))
                 ELSE diff
            ELSE IF isArray(oldValue) \/ isArray(newValue)
            THEN IF JSONstringify(oldValue) # JSONstringify(newValue)
                 THEN DiffAssign(diff, Change(currentPath, "update", oldValue, newValue))
                 ELSE diff
            ELSE ObjectAssign(diff, deepDiff(oldValue, newValue, currentPath, FALSE))
      IN  forEachKey(oldObj, newObj, path, keys, i + 1, next)

\* deepDiff(oldObj, newObj, path); same: the two arguments are one object
deepDiff(oldObj, newObj, path, same) ==
    IF same \/ strictEqual(oldObj, newObj) THEN <<>>
    ELSE IF isPrimitive(oldObj) \/ isPrimitive(newObj)
    THEN UpdateRecord(oldObj, newObj)
    ELSE IF isArray(oldObj) /\ isArray(newObj)
    THEN IF JSONstringify(oldObj) # JSONstringify(newObj)
         THEN UpdateRecord(oldObj, newObj)
         ELSE <<>>
    ELSE forEachKey(oldObj, newObj, path, AllKeys(oldObj, newObj), 1, <<>>)

\* JSON.parse(JSON.stringify(value)): a copy without the properties that
\* are undefined, and with null for undefined in an array
RECURSIVE JSONcopy(_)
RECURSIVE copyItems(_, _)
copyItems(value, i) ==
    IF i > Len(value.items) THEN <<>>
    ELSE LET it == value.items[i] IN
         IF it.v = UndefinedValue
         THEN (IF isArray(value) THEN <<Item(it.k, Prim("null"))>> ELSE <<>>)
              \o copyItems(value, i + 1)
         ELSE <<Item(it.k, JSONcopy(it.v))>> \o copyItems(value, i + 1)

JSONcopy(value) ==
    IF isPrimitive(value) THEN value
    ELSE [value EXCEPT !.items = copyItems(value, 1)]

\* path.split('.')
RECURSIVE splitPath(_, _, _)
splitPath(path, i, cur) ==
    IF i > Len(path) THEN <<cur>>
    ELSE IF path[i] = "." THEN <<cur>> \o splitPath(path, i + 1, <<>>)
    ELSE splitPath(path, i + 1, Append(cur, path[i]))

\* !value
Falsy(value) == isPrimitive(value) /\ value.p \in {"undefined", "null"}

Returned(value) == [threw |-> FALSE, value |-> value]
Thrown(value) == [threw |-> TRUE, value |-> value]

\* the body of the loop of applyDiff for one change, from path part i on:
\* walks from current along pathParts, creating the objects that are
\* missing, and sets or deletes lastKey. The module is strict code: writing
\* a property of a primitive raises a TypeError, and so does any access to
\* a property of null.
RECURSIVE applyChange(_, _, _, _, _)
applyChange(current, pathParts, i, lastKey, change) ==
    IF i > Len(pathParts)
    THEN CASE change.type \in {"add", "update"} ->
                IF isPrimitive(current) THEN Thrown(current)
                ELSE Returned(SetKey(current, lastKey, change.value))
           [] change.type = "delete" ->
                IF isPrimitive(current)
                THEN (IF Falsy(current) THEN Thrown(current) ELSE Returned(current))
                ELSE Returned(DeleteKey(current, lastKey))
           [] OTHER -> Returned(current)
    ELSE
      LET part == pathParts[i] IN
      IF isPrimitive(current)
      THEN \* reading current[part] gives undefined, or raises on null;
           \* current[part] = {} then raises
           Thrown(current)
      ELSE
        LET child == IF Falsy(GetKey(current, part)) THEN Obj(<<>>)
                     ELSE GetKey(current, part)
            inner == applyChange(child, pathParts, i + 1, lastKey, change)
        IN  [inner EXCEPT !.value = SetKey(current, part, inner.value)]

RECURSIVE applyEach(_, _, _)
applyEach(result, diff, i) ==
    IF i > Len(diff) THEN Returned(result)
    ELSE LET parts == splitPath(diff[i].path, 1, <<>>)
             step == applyChange(result, SubSeq(parts, 1, Len(parts) - 1), 1,
                                 parts[Len(parts)], diff[i])
         IN  IF step.threw THEN step ELSE applyEach(step.value, diff, i + 1)

applyDiff(target, diff) == applyEach(JSONcopy(target), diff, 1)

\* deep equality of two values: the same primitive, or the same kind of
\* object with the same keys and deep-equal values, in any key order
RECURSIVE DeepEqual(_, _)
DeepEqual(a, b) ==
    /\ a.t = b.t
    /\ a.p = b.p
    /\ {a.items[i].k : i \in 1..Len(a.items)} = {b.items[i].k : i \in 1..Len(b.items)}
    /\ \A i \in 1..Len(a.items) :
          DeepEqual(a.items[i].v, GetKey(b, a.items[i].k))

----------------------------------------------------------------------------
(* schemas/schema-registry.js: SchemaRegistry                              *)
(*                                                                         *)
(* A version string is the sequence of its dot-separated parts; a part     *)
(* that is no number is NaN. The version tag _v that is absent (or the     *)
(* empty string) is the empty sequence.                                    *)

NaN == -1
NoTag == <<>>
V100 == <<1, 0, 0>>
V101 == <<1, 0, 1>>
V110 == <<1, 1, 0>>
V200 == <<2, 0, 0>>
V10 == <<1, 0>>            \* "1.0"
Vlatest == <<NaN>>         \* "latest"

CURRENT_VERSION == V100

\* the table the repository ships: version 1.0.0, no migration
ShippedSchemas == <<[version |-> V100, migration |-> FALSE]>>

\* parts[i] || 0
VersionPart(version, i) ==
    IF i <= Len(version) /\ version[i] # NaN THEN version[i] ELSE 0

parseVersion(version) ==
    [major |-> VersionPart(version, 1), minor |-> VersionPart(version, 2),
     patch |-> VersionPart(version, 3)]

\* a variant that compares the major and the minor part only
compareVersions_NoPatch(v1, v2) ==
    LET ver1 == parseVersion(v1)
        ver2 == parseVersion(v2)
    IN  IF ver1.major # ver2.major THEN (IF ver1.major < ver2.major THEN -1 ELSE 1)
        ELSE IF ver1.minor # ver2.minor THEN (IF ver1.minor < ver2.minor THEN -1 ELSE 1)
        ELSE 0

compareVersions(v1, v2) ==
    LET ver1 == parseVersion(v1)
        ver2 == parseVersion(v2)
    IN  IF ver1.major # ver2.major THEN (IF ver1.major < ver2.major THEN -1 ELSE 1)
        ELSE IF ver1.minor # ver2.minor THEN (IF ver1.minor < ver2.minor THEN -1 ELSE 1)
        ELSE IF ver1.patch # ver2.patch THEN (IF ver1.patch < ver2.patch THEN -1 ELSE 1)
        ELSE 0

\* array.indexOf(x), counted from 1; 0 where JavaScript gives -1
IndexOf(array, x) ==
    IF \E i \in 1..Len(array) : array[i] = x
    THEN CHOOSE i \in 1..Len(array) :
            array[i] = x /\ \A j \in 1..(i - 1) : array[j] # x
    ELSE 0

\* Object.keys(SCHEMAS)
SchemaKeys(schemas) == [i \in 1..Len(schemas) |-> schemas[i].version]

\* keys.sort(compareVersions): a stable sort
RECURSIVE SortVersions(_)
InsertVersion(sorted, version) ==
    LET before == SelectSeq(sorted, LAMBDA w : compareVersions(w, version) <= 0)
        after == SelectSeq(sorted, LAMBDA w : compareVersions(w, version) > 0)
    IN  before \o <<version>> \o after
SortVersions(keys) ==
    IF keys = <<>> THEN <<>>
    ELSE InsertVersion(SortVersions(SubSeq(keys, 1, Len(keys) - 1)), keys[Len(keys)])

getVersionsInOrder(schemas) == SortVersions(SchemaKeys(schemas))

\* schema && schema.migration, for schema = getSchema(version)
HasMigration(schemas, version) ==
    \E i \in 1..Len(schemas) : schemas[i].version = version /\ schemas[i].migration

canMigrate(schemas, fromVersion, toVersion) ==
    IF compareVersions(fromVersion, toVersion) >= 0 THEN FALSE
    ELSE
      LET versions == getVersionsInOrder(schemas)
          fromIndex == IndexOf(versions, fromVersion)
          toIndex == IndexOf(versions, toVersion)
      IN  IF fromIndex = 0 \/ toIndex = 0 THEN FALSE
          ELSE \A i \in (fromIndex + 1)..toIndex : HasMigration(schemas, versions[i])

\* The data handed to the registry: null, a primitive or an object with
\* its tag _v, the required fields it holds with a truthy value, and the
\* versions whose migration function was applied to it, in order.
NullData == [kind |-> "null", _v |-> NoTag, fields |-> {}, applied |-> <<>>]
PrimData == [kind |-> "prim", _v |-> NoTag, fields |-> {}, applied |-> <<>>]
ObjData(tag, fields) ==
    [kind |-> "obj", _v |-> tag, fields |-> fields, applied |-> <<>>]

\* what a call gave: a value, or an error raised to the caller; data is
\* the object of the caller after the call
NoResult ==
    [threw |-> FALSE, error |-> "", value |-> NullData, truth |-> FALSE,
     errors |-> <<>>, warnings |-> <<>>, data |-> NullData]
Raise(error, data) == [NoResult EXCEPT !.threw = TRUE, !.error = error, !.data = data]

\* schema.migration(migratedData), then migratedData._v = nextVersion: the
\* migration function builds a new object from the one it is given
Migration(nextVersion, migratedData) ==
    [migratedData EXCEPT !._v = nextVersion, !.applied = Append(@, nextVersion)]

\* the loop of migrate from index i on
RECURSIVE MigrateFrom(_, _, _, _, _, _)
\* a variant that stops at a version without migration function and
\* returns what it has
MigrateFrom_StopAtGap(schemas, versions, i, targetIndex, migratedData, data) ==
    IF i > targetIndex THEN [NoResult EXCEPT !.value = migratedData, !.data = data]
    ELSE IF ~HasMigration(schemas, versions[i])
    THEN [NoResult EXCEPT !.value = migratedData, !.data = data]
    ELSE MigrateFrom(schemas, versions, i + 1, targetIndex,
                     Migration(versions[i], migratedData), data)

MigrateFrom(schemas, versions, i, targetIndex, migratedData, data) ==
    IF i > targetIndex THEN [NoResult EXCEPT !.value = migratedData, !.data = data]
    ELSE IF ~HasMigration(schemas, versions[i])
    THEN Raise("No migration path", data)
    ELSE MigrateFrom(schemas, versions, i + 1, targetIndex,
                     Migration(versions[i], migratedData), data)

migrate(schemas, data, targetVersion) ==
    IF data.kind = "null" THEN Raise("TypeError", data)     \* data._v of null
    ELSE IF data._v = NoTag THEN Raise("Data does not contain schema version", data)
    ELSE
      LET migratedData == [data EXCEPT !.kind = "obj"]      \* { ...data }
          versions == getVersionsInOrder(schemas)
          currentIndex == IndexOf(versions, data._v)
          targetIndex == IndexOf(versions, targetVersion)
      IN  IF currentIndex = 0 THEN Raise("Unknown schema version", data)
          ELSE IF targetIndex = 0 THEN Raise("Unknown target version", data)
          ELSE MigrateFrom(schemas, versions, currentIndex + 1, targetIndex,
                           migratedData, data)

RequiredFields == <<"id", "name", "type">>
RequiredStructures == <<"combat", "abilities", "skills">>

\* the errors of the fields of list that data does not hold
MissingOf(data, list) ==
    SelectSeq(list, LAMBDA field : field \notin data.fields)

validate(data, version) ==
    IF data.kind = "null" THEN Raise("TypeError", data)     \* data._v of null
    ELSE
      LET tagErrors == IF data._v = NoTag THEN <<"_v">> ELSE <<>>
          warnings == IF data._v # NoTag /\ data._v # version
                      THEN <<"Schema version mismatch">> ELSE <<>>
          fieldErrors == IF version = V100
                         THEN MissingOf(data, RequiredFields)
                              \o MissingOf(data, RequiredStructures)
                         ELSE <<>>
          errors == tagErrors \o fieldErrors
      IN  [NoResult EXCEPT !.truth = (Len(errors) = 0), !.errors = errors,
                           !.warnings = warnings, !.data = data]

\* no call of the registry yet
NoCall ==
    [op |-> "none", stage |-> "idle", fromVersion |-> NoTag, toVersion |-> NoTag,
     data |-> NullData, result |-> NoResult]

\* no call of deepDiff or applyDiff yet
NoPatch ==
    [stage |-> "idle", oldObj |-> UndefinedValue, newObj |-> UndefinedValue,
     same |-> FALSE, diff |-> <<>>, result |-> Returned(UndefinedValue)]

----------------------------------------------------------------------------
(* BaseMageHandUI: the callers of connect() and disconnect() *)

UpperCase ==
    {"A","B","C","D","E","F","G","H","I","J","K","L","M",
     "N","O","P","Q","R","S","T","U","V","W","X","Y","Z"}
Digits == {"0","1","2","3","4","5","6","7","8","9"}

validateSessionCode(code) ==
    /\ Len(code) = 11
    /\ \A i \in {1, 2, 3} : code[i] \in UpperCase
    /\ code[4] = "-"
    /\ \A i \in {5, 6, 7} : code[i] \in UpperCase \cup Digits
    /\ code[8] = "-"
    /\ \A i \in {9, 10, 11} : code[i] \in UpperCase \cup Digits

connectToSession(h, code) ==
    IF ~validateSessionCode(code) THEN h
    ELSE connect(setFlag(h, code), code)

disconnectSession(h) == disconnect(unsetFlag(h))

----------------------------------------------------------------------------
(* The inputs of the model *)

CloseCodes == {1000, 1006, 4000, 4001, 4002, 4003}
TerminalCodes == {4000, 4001, 4002, 4003}

Rosters ==
    { <<>>,
      <<[clientType |-> "mobile", clientId |-> "m1"],
        [clientType |-> "foundry", clientId |-> "host"]>>,
      <<[clientType |-> "mobile", clientId |-> "m1"],
        [clientType |-> "mobile", clientId |-> "m2"]>> }

FeatureLists == {UndefinedList, <<"combat">>}

Msg(type, from, arg) == [InMsg EXCEPT !.type = type, !.from = from, !.arg = arg]

LinkMessages ==
    {Msg("PRE:JOIN:ACK", Undefined, Undefined),
     Msg("PRE:JOIN:RESET", Undefined, Undefined),
     Msg("CONNECTION:SUSPENDED", "m1", Undefined),
     Msg("CONNECTION:RESUMED", "m1", Undefined),
     Msg("HEARTBEAT", Undefined, Undefined),
     Msg("PONG", Undefined, Undefined),
     Msg("SETUP:REQ:PLAYERS", "m1", Undefined),
     Msg("UNKNOWN:TYPE", Undefined, Undefined),
     Msg("unparseable", Undefined, Undefined)}
    \cup {Msg("PRE:JOIN:RESUME", Undefined, st) : st \in ConnectionState}
    \cup {Msg("PRE:JOINED", Undefined, r) : r \in Rosters}
    \cup {Msg(t, "m1", Undefined) : t \in PlayTypes}
    \cup {Msg("ERROR", Undefined, c) : c \in {"INVALID_STATE", "INTERNAL"}}
    \cup {Msg("CONNECTION:LOST", f, Undefined) : f \in ClientIds \cup {Undefined}}

ClientMessages ==
    {[Msg("INIT:HELO", f, Undefined) EXCEPT !.capabilities = c] :
         f \in ClientIds,
         c \in {InMsg.capabilities} \cup
               {Capabilities(v, fs) : v \in {ourSchema, "2.0.0", Undefined},
                                      fs \in FeatureLists}}
    \cup {Msg("INIT:HELO:ACK", f, Undefined) : f \in ClientIds}
    \cup {Msg("INIT:REQ:STATE", f, Undefined) : f \in ClientIds}
    \cup {Msg("SETUP:REQ:ACTORS", f, p) : f \in ClientIds, p \in {"p1", "p9"}}
    \cup {Msg("SETUP:REQ:ACTOR", f, a) : f \in ClientIds, a \in {"a1", "a9"}}
    \cup {Msg("SETUP:ACTOR:ACK", f, a) : f \in ClientIds, a \in {"a1", "a9", Undefined}}

Messages == LinkMessages \cup ClientMessages

----------------------------------------------------------------------------
(* mage-hand.js: MageHand                                                  *)

\* the characters whose changes are synchronized
Characters == {"a1", "a2"}

\* this.characterData = new Map()
NoCharacterData == [actorId \in Characters |-> UndefinedValue]

isConnected(h) == h.socket = "OPEN" /\ h.connectionState # "DISCONNECTED"

\* the state of a call of handleActorUpdate: the handler, the cache, the
\* diff it computed, and an error on its way to the catch clause
Handling(h, cache) == [h |-> h, characterData |-> cache, diff |-> <<>>, thrown |-> FALSE]

\* this.websocketHandler.sendCharacterUpdate(actorId, diff): the handler
\* has no method of this name, the call raises a TypeError
sendUpdate(u, actorId, diff) ==
    IF ~isConnected(u.h) THEN u
    ELSE [u EXCEPT !.thrown = TRUE]

\* this.websocketHandler.sendCharacterData(actor), for the actor that
\* game.actors holds: no method of this name either
sendFullSync(u, actorId, data) ==
    IF ~isConnected(u.h) THEN u
    ELSE [u EXCEPT !.thrown = TRUE]

\* a variant that stores the snapshot after the messages are sent
syncExtracted_StoreLast(u0, actorId, extractedData) ==
    LET lastData == u0.characterData[actorId]
        u == IF ~Falsy(lastData)
             THEN LET diff == deepDiff(lastData, extractedData, <<>>, FALSE)
                      u1 == [u0 EXCEPT !.diff = diff]
                  IN  IF Len(diff) > 0 THEN sendUpdate(u1, actorId, diff) ELSE u1
             ELSE sendFullSync(u0, actorId, extractedData)
    IN  IF u.thrown THEN u
        ELSE [u EXCEPT !.characterData[actorId] = extractedData]

\* the statements of handleActorUpdate after the extraction, up to the
\* catch clause
syncExtracted(u0, actorId, extractedData) ==
    LET lastData == u0.characterData[actorId]
        u == [u0 EXCEPT !.characterData[actorId] = extractedData]
    IN  IF ~Falsy(lastData)
        THEN LET diff == deepDiff(lastData, extractedData, <<>>, FALSE)
                 u1 == [u EXCEPT !.diff = diff]
             IN  IF Len(diff) > 0 THEN sendUpdate(u1, actorId, diff) ELSE u1
        ELSE sendFullSync(u, actorId, extractedData)

\* handleActorUpdate(actor, changes), extractedData being what the
\* extractor gives for the actor: a snapshot, or null
handleActorUpdate(h, cache, actorId, extractedData) ==
    IF Falsy(extractedData) THEN Handling(h, cache)
    ELSE syncExtracted(Handling(h, cache), actorId, extractedData)

\* MageHand.connect(sessionCode)
mageHandConnect(h, code) == connect(h, code)

\* a variant of ready that still takes a record of exactly 24 hours
ready_Inclusive(h) ==
    LET session == h.sessionFlag IN
    IF session.present /\ session.valid /\ session.code # NullCode
    THEN IF Now - session.timestamp <= SessionTTL
         THEN mageHandConnect(h, session.code)
         ELSE unsetFlag(h)
    ELSE h

\* ready(), from the test of the saved session on; a record without
\* timestamp has the timestamp 0
ready(h) ==
    LET session == h.sessionFlag IN
    IF session.present /\ session.valid /\ session.code # NullCode
    THEN IF Now - session.timestamp < SessionTTL
         THEN mageHandConnect(h, session.code)
         ELSE unsetFlag(h)
    ELSE h

\* no change handled yet
NoUpdate ==
    [stage |-> "idle", actorId |-> "a1", extractedData |-> UndefinedValue,
     before |-> NoCharacterData, connected |-> FALSE, diff |-> <<>>,
     caught |-> FALSE]

----------------------------------------------------------------------------
(* rollers/base-roller.js: BaseRoller, its pending rolls and chat listener  *)
(*                                                                         *)
(* roller holds the instance and its callers: now is Date.now(),           *)
(* pendingRolls the Map in insertion order (each entry with the call whose *)
(* resolve and reject it stores), timers the pending setTimeout callbacks  *)
(* in the order they were set (all with the same delay, so they fire in    *)
(* this order), requests the calls of rollAbilityTest and their promises,  *)
(* calls the number of calls made so far.                                  *)

MaxRolls == 2
MaxClock == 2

Rolls == 1..MaxRolls
Abilities == {"str", "dex", "con", "int", "wis", "cha"}

NoValue == [kind |-> "none", actorId |-> "", total |-> 0]
NullValue == [kind |-> "null", actorId |-> "", total |-> 0]
RollResult(actorId, total) == [kind |-> "result", actorId |-> actorId, total |-> total]

NoRollId == <<>>
NoRequest ==
    [stage |-> "idle", actor |-> "", rollId |-> NoRollId, promise |-> "none",
     settled |-> NoValue, returned |-> NoValue]

NoChat == [actor |-> "", rolls |-> FALSE, total |-> 0]

\* new BaseRoller()
NewRoller ==
    [now |-> 0, pendingRolls |-> <<>>, timers |-> <<>>,
     requests |-> [r \in Rolls |-> NoRequest], calls |-> 0,
     last |-> [kind |-> "init", request |-> 0, message |-> NoChat]]

\* this.resolveActor(actorInput): null for an actor the game does not hold
resolveActor(actorInput) == IF actorInput \in Characters THEN actorInput ELSE Null

\* `${actor.id}-${identifier}-${type}-${Date.now()}`
RollId(actor, identifier, type, now) == <<actor, identifier, type, now>>

pendingHas(pendingRolls, rollId) ==
    \E i \in 1..Len(pendingRolls) : pendingRolls[i].rollId = rollId

\* Map.set: a key that is present keeps its place and gets the new value
pendingSet(pendingRolls, rollId, pending) ==
    IF pendingHas(pendingRolls, rollId)
    THEN [i \in 1..Len(pendingRolls) |->
             IF pendingRolls[i].rollId = rollId THEN pending ELSE pendingRolls[i]]
    ELSE Append(pendingRolls, pending)

RECURSIVE pendingDelete(_, _)
pendingDelete(pendingRolls, rollId) ==
    IF pendingRolls = <<>> THEN <<>>
    ELSE IF Head(pendingRolls).rollId = rollId THEN Tail(pendingRolls)
    ELSE <<Head(pendingRolls)>> \o pendingDelete(Tail(pendingRolls), rollId)

\* resolve(result) and reject(error) of the promise of call r: a promise
\* that is settled stays as it is
resolvePromise(b, r, result) ==
    IF b.requests[r].promise # "pending" THEN b
    ELSE [b EXCEPT !.requests[r].promise = "resolved",
                   !.requests[r].settled = result]

rejectPromise(b, r) ==
    IF b.requests[r].promise # "pending" THEN b
    ELSE [b EXCEPT !.requests[r].promise = "rejected"]

createRollPromise(b, r, actor, identifier, type) ==
    LET rollId == RollId(actor, identifier, type, b.now)
        pending == [rollId |-> rollId, owner |-> r, actor |-> actor]
    IN  [b EXCEPT !.requests[r] = [NoRequest EXCEPT !.stage = "performing",
                                                   !.actor = actor,
                                                   !.rollId = rollId,
                                                   !.promise = "pending"],
                  !.pendingRolls = pendingSet(@, rollId, pending),
                  !.timers = Append(@, r)]

\* the callback of the setTimeout of call r
rollTimeout(b, r) ==
    LET rollId == b.requests[r].rollId IN
    IF pendingHas(b.pendingRolls, rollId)
    THEN rejectPromise([b EXCEPT !.pendingRolls = pendingDelete(@, rollId)], r)
    ELSE b

\* rollAbilityTest up to its first await
rollAbilityTest(b, r, actorInput, ability) ==
    LET actor == resolveActor(actorInput) IN
    IF actor = Null
    THEN [b EXCEPT !.requests[r] = [NoRequest EXCEPT !.stage = "returned",
                                                    !.returned = NullValue]]
    ELSE IF ability \notin Abilities
    THEN [b EXCEPT !.requests[r] = [NoRequest EXCEPT !.stage = "returned",
                                                    !.actor = actor,
                                                    !.returned = NullValue]]
    ELSE createRollPromise(b, r, actor, ability, "ability")

\* await this.performAbilityTest(...) returned: return await rollPromise
performed(b, r) == [b EXCEPT !.requests[r].stage = "awaiting"]

\* await this.performAbilityTest(...) raised: the catch clause returns null
performFailed(b, r) ==
    [b EXCEPT !.requests[r].stage = "returned", !.requests[r].returned = NullValue]

\* return await rollPromise, once the promise is settled: the result, or
\* null from the catch clause
resumeRoll(b, r) ==
    [b EXCEPT !.requests[r].stage = "returned",
              !.requests[r].returned =
                  IF b.requests[r].promise = "resolved"
                  THEN b.requests[r].settled ELSE NullValue]

\* RollParser.parseFromMessage(message, pending)
parseFromMessage(message) ==
    IF ~message.rolls THEN NullValue
    ELSE RollResult(message.actor, message.total)

\* the loop of the listener over this.pendingRolls, from entry i on
RECURSIVE chatLoop(_, _, _)
chatLoop(b, message, i) ==
    IF i > Len(b.pendingRolls) THEN b
    ELSE LET pending == b.pendingRolls[i] IN
         IF pending.actor # message.actor THEN chatLoop(b, message, i + 1)
         ELSE LET result == parseFromMessage(message) IN
              IF result = NullValue THEN chatLoop(b, message, i + 1)
              ELSE [resolvePromise(b, pending.owner, result)
                       EXCEPT !.pendingRolls = pendingDelete(@, pending.rollId)]

\* the listener of createChatMessage
createChatMessage(b, message) ==
    IF ~message.rolls THEN b
    ELSE IF message.actor \notin Characters THEN b
    ELSE chatLoop(b, message, 1)

----------------------------------------------------------------------------
(* Events *)

Event(kind, code, message, h) ==
    [kind |-> kind, code |-> code, message |-> message, invoked |-> h.invoked,
     thrown |-> h.thrown, returned |-> h.returned]

Commit(h, e) ==
    /\ ~h.overflow
    /\ socket' = h.socket
    /\ others' = h.others
    /\ sessionCode' = h.sessionCode
    /\ connectionState' = h.connectionState
    /\ reconnectAttempts' = h.reconnectAttempts
    /\ heartbeatInterval' = h.heartbeatInterval
    /\ mobileClients' = h.mobileClients
    /\ clientSnapshots' = h.clientSnapshots
    /\ timers' = h.timers
    /\ sessionFlag' = h.sessionFlag
    /\ sent' = h.sent
    /\ trail' = h.trail
    /\ scheduled' = h.scheduled
    /\ userDisconnected' = h.userDisconnected
    /\ ev' = e
    /\ UNCHANGED <<patch, SCHEMAS, call, roller>>

Finish(h, e) == Commit(h, e) /\ UNCHANGED <<characterData, update>>

InitHandler ==
    /\ socket = "null"
    /\ others = EmptyBag
    /\ sessionCode = NullCode
    /\ connectionState = "DISCONNECTED"
    /\ reconnectAttempts = 0
    /\ heartbeatInterval = FALSE
    /\ mobileClients = EmptyMap
    /\ clientSnapshots = EmptyMap
    /\ timers = EmptyBag
    /\ sessionFlag = NoFlag
    /\ sent = <<>>
    /\ trail = <<>>
    /\ scheduled = 0
    /\ userDisconnected = FALSE
    /\ ev = [kind |-> "init", code |-> 0, message |-> InMsg, invoked |-> "none",
             thrown |-> FALSE, returned |-> Undefined]

\* the MageHand instance after its constructor
InitMageHand == characterData = NoCharacterData /\ update = NoUpdate

\* the roller after its constructor
InitRoller == roller = NewRoller

Init ==
    /\ InitHandler /\ InitMageHand
    /\ patch = NoPatch /\ SCHEMAS = ShippedSchemas /\ call = NoCall
    /\ InitRoller

\* the transports whose events reach the handler: this.socket and the others
Transports ==
    (IF socket = "null" THEN {} ELSE {<<"this", socket>>})
    \cup {<<"other", r>> : r \in BagToSet(others)}

\* the transport t changes its readyState to r ("CLOSED": it is gone)
SetReadyState(h, t, r) ==
    IF t[1] = "this" THEN [h EXCEPT !.socket = r]
    ELSE [h EXCEPT !.others = IF r = "CLOSED" THEN @ (-) SetToBag({t[2]})
                              ELSE (@ (-) SetToBag({t[2]})) (+) SetToBag({r})]

ConnectToSession(codes) ==
    \E code \in codes :
        LET h == connectToSession(Self, code)
        IN  Finish(h, Event("connectToSession", 0, InMsg, h))

DisconnectSession ==
    LET h == disconnectSession(Self)
    IN  Finish(h, Event("disconnectSession", 0, InMsg, h))

SocketOpen ==
    \E t \in Transports :
        /\ t[2] = "CONNECTING"
        /\ LET h == onOpen(SetReadyState(Self, t, "OPEN"))
           IN  Finish(h, Event("open", 0, InMsg, h))

SocketMessage(messages) ==
    \E t \in Transports, message \in messages :
        /\ t[2] = "OPEN"
        /\ LET h == onMessage(Self, message)
           IN  Finish(h, Event("message", 0, message, h))

SocketClose(codes) ==
    \E t \in Transports, code \in codes :
        /\ t[2] \in {"CONNECTING", "OPEN", "CLOSING"}
        /\ LET h == onClose(SetReadyState(Self, t, "CLOSED"), code)
           IN  Finish(h, Event("close", code, InMsg, h))

ReconnectTimer ==
    \E delay \in BagToSet(timers) :
        LET h == reconnectTimer([Self EXCEPT !.timers = @ (-) SetToBag({delay})])
        IN  Finish(h, Event("timer", delay, InMsg, h))

HeartbeatTimer ==
    /\ heartbeatInterval
    /\ LET h == heartbeatTick(Self)
       IN  Finish(h, Event("heartbeat", 0, InMsg, h))

----------------------------------------------------------------------------
(* Spec: the transport lifecycle. Every API call, transport event and      *)
(* backoff timer, with the relay messages that act on the connection.      *)

ReconnectMessages ==
    {Msg("PRE:JOIN:ACK", Undefined, Undefined),
     Msg("PRE:JOIN:RESET", Undefined, Undefined),
     Msg("PRE:JOIN:RESUME", Undefined, "SETUP"),
     Msg("PRE:JOIN:RESUME", Undefined, "PLAY"),
     Msg("SETUP:ACTOR:ACK", "m1", "a1")}

Next ==
    \/ ConnectToSession({CodeNYC})
    \/ DisconnectSession
    \/ SocketOpen
    \/ SocketMessage(ReconnectMessages)
    \/ SocketClose(CloseCodes)
    \/ ReconnectTimer
    \/ HeartbeatTimer

Spec == Init /\ [][Next]_vars


----------------------------------------------------------------------------
(* Claims checked under Spec *)

LiveStates == {"CONNECTING", "OPEN", "CLOSING"}

\* the number of transports that are connecting, open or closing
LiveCount(sock, oth) ==
    (IF sock \in LiveStates THEN 1 ELSE 0) + BagCardinality(oth)

Rank(st) ==
    CASE st = "DISCONNECTED" -> 0 [] st = "JOINING" -> 1 [] st = "JOINED" -> 2
      [] st = "INIT" -> 3 [] st = "SETUP" -> 4 [] st = "PLAY" -> 5
      [] OTHER -> 0

\* C1: connectionState becomes PLAY only from SETUP, and no state change moves
\* forward over a phase of DISCONNECTED, JOINING, JOINED, INIT, SETUP, PLAY:
\* every call of updateConnectionState that enters PLAY is made in SETUP, and
\* none advances the phase by more than one step.
C1_PlayOnlyThroughSetup ==
    \A i \in DOMAIN trail :
        /\ (trail[i][2] = "PLAY" /\ trail[i][1] # "PLAY") => trail[i][1] = "SETUP"
        /\ (trail[i][1] # "SUSPENDED" /\ trail[i][2] # "SUSPENDED")
               => Rank(trail[i][2]) <= Rank(trail[i][1]) + 1

\* C3: once disconnect() was called, and until the next connect(), a backoff
\* timer that fires opens no transport and leaves connectionState
\* DISCONNECTED: the pending timer was cancelled.
C3_DisconnectCancelsReconnect ==
    (userDisconnected /\ ev.kind = "timer")
        => (socket = "null" /\ connectionState = "DISCONNECTED")

\* C4: between two calls of connect() at most maxReconnectAttempts reconnect
\* attempts are scheduled, and the k-th of them is scheduled with a delay of
\* at least reconnectDelay * 2^(k-1) after the close that triggered it.
C4_ReconnectBound ==
    [][ /\ scheduled' <= maxReconnectAttempts
        /\ scheduled' > scheduled =>
              /\ ev'.kind = "close"
              /\ scheduled' = scheduled + 1
              /\ \E d \in BagToSet(timers') :
                    /\ timers' = timers (+) SetToBag({d})
                    /\ d >= 1000 * 2 ^ (scheduled' - 1) ]_vars

C4_Witness ==
    /\ ev.kind = "close"
    /\ scheduled = 3
    /\ BagIn(4000, timers)

C6_GiveUpIsFinal ==
    (ev.kind = "close" /\ ev.code \notin {1000} \cup TerminalCodes
        /\ connectionState = "DISCONNECTED")
        => /\ reconnectAttempts = maxReconnectAttempts
           /\ timers = EmptyBag
           /\ LiveCount(socket, others) = 0

C10_HeartbeatInPlay ==
    connectionState = "PLAY" => heartbeatInterval

\* C12: connectionState becomes SUSPENDED only out of PLAY: every call of
\* updateConnectionState that enters SUSPENDED is made in PLAY (or leaves a
\* connection that is SUSPENDED as it is).
C12_SuspendedOnlyFromPlay ==
    \A i \in DOMAIN trail :
        trail[i][2] = "SUSPENDED" => trail[i][1] \in {"PLAY", "SUSPENDED"}

----------------------------------------------------------------------------
(* SpecSession: one session with its companions. The relay's roster, the   *)
(* handshake of each companion, actor selection and the play messages,     *)
(* over transports that open and close without reconnecting.               *)

SessionMessages ==
    {Msg("PRE:JOINED", Undefined, r) : r \in Rosters}
    \cup {[Msg("INIT:HELO", f, Undefined) EXCEPT !.capabilities = c] :
             f \in ClientIds,
             c \in {InMsg.capabilities,
                    Capabilities(ourSchema, UndefinedList),
                    Capabilities(ourSchema, <<"combat">>),
                    Capabilities("2.0.0", <<"combat">>),
                    Capabilities(Undefined, UndefinedList)}}
    \cup {Msg("SETUP:ACTOR:ACK", "m1", "a1"),
          Msg("CONNECTION:LOST", "m1", Undefined)}
    \cup {Msg(t, "m1", Undefined) : t \in PlayTypes}

NextSession ==
    \/ ConnectToSession({CodeNYC})
    \/ DisconnectSession
    \/ SocketOpen
    \/ SocketMessage(SessionMessages)
    \/ SocketClose({1000, 4003})
    \/ HeartbeatTimer

SpecSession == Init /\ [][NextSession]_vars

----------------------------------------------------------------------------
(* SpecLink: the relay's notifications about the link and the companions,  *)
(* heartbeats, frames that are not JSON and setup messages that name       *)
(* unknown companions or actors, over transports that close normally.      *)

SetupMessages ==
    {[Msg("INIT:HELO", "m1", Undefined) EXCEPT
          !.capabilities = Capabilities(ourSchema, <<"combat">>)],
     Msg("SETUP:REQ:ACTOR", "m1", "a1"),
     Msg("SETUP:REQ:ACTOR", "m1", "a9"),
     Msg("SETUP:ACTOR:ACK", "m1", "a1"),
     Msg("SETUP:ACTOR:ACK", "m1", "a9"),
     Msg("SETUP:ACTOR:ACK", "m2", "a1")}

NotificationMessages ==
    {Msg("PRE:JOINED", Undefined,
         <<[clientType |-> "mobile", clientId |-> "m1"],
           [clientType |-> "mobile", clientId |-> "m2"]>>),
     Msg("CONNECTION:SUSPENDED", "m1", Undefined),
     Msg("CONNECTION:RESUMED", "m1", Undefined),
     Msg("CONNECTION:LOST", "m1", Undefined),
     Msg("CONNECTION:LOST", "m2", Undefined),
     Msg("CONNECTION:LOST", Undefined, Undefined),
     Msg("HEARTBEAT", Undefined, Undefined),
     Msg("unparseable", Undefined, Undefined)}

NextLink ==
    \/ ConnectToSession({CodeNYC})
    \/ DisconnectSession
    \/ SocketOpen
    \/ SocketMessage(NotificationMessages \cup SetupMessages)
    \/ SocketClose({1000})
    \/ HeartbeatTimer

SpecLink == Init /\ [][NextLink]_vars

----------------------------------------------------------------------------
(* Claims checked under SpecSession *)

\* C2: a PLAY-phase action message received while connectionState is not PLAY
\* (handlePlayMessage leaves connectionState as it found it) is answered
\* with an ERROR message that carries the current state, and its action
\* handler is not invoked.
C2_PlayMessageOutsidePlayRejected ==
    (ev.kind = "message" /\ ev.message.type \in PlayTypes
        /\ connectionState # "PLAY")
        => /\ ev.invoked = "none"
           /\ \E i \in DOMAIN sent :
                 sent[i].type = "ERROR" /\ sent[i].state = connectionState

----------------------------------------------------------------------------
(* Claims checked under SpecLink *)

\* C11: after a CONNECTION:SUSPENDED notification the connectionState is not
\* PLAY and the heartbeat is stopped (received in PLAY it moves the state to
\* SUSPENDED), and after a CONNECTION:RESUMED notification a connection in
\* PLAY has its heartbeat running again.
C11_SuspendResume ==
    /\ (ev.kind = "message" /\ ev.message.type = "CONNECTION:SUSPENDED")
          => (connectionState # "PLAY" /\ ~heartbeatInterval)
    /\ (ev.kind = "message" /\ ev.message.type = "CONNECTION:RESUMED"
          /\ connectionState = "PLAY")
          => heartbeatInterval

C14_DisconnectCleansUp ==
    [][ ev'.kind = "disconnectSession"
        => /\ connectionState' = "DISCONNECTED"
           /\ DOMAIN mobileClients' = {}
           /\ DOMAIN clientSnapshots' = {}
           /\ socket' = "null"
           /\ ~heartbeatInterval'
           /\ others' = IF socket \in {"CONNECTING", "OPEN"}
                        THEN others (+) SetToBag({"CLOSING"})
                        ELSE others
      ]_vars

\* a disconnect that closed a transport and found nothing else live
C14_Witness ==
    /\ ev.kind = "disconnectSession"
    /\ others = SetToBag({"CLOSING"})
    /\ connectionState = "DISCONNECTED"
    /\ Len(trail) = 1
    /\ trail[1][1] = "PLAY"

\* C16: a frame that is not JSON is dropped: connectionState, mobileClients,
\* clientSnapshots, the heartbeat timer, reconnectAttempts, the backoff
\* timers and the transports are as before (so the next frames are handled
\* as if it had not arrived), nothing is sent and no error leaves onMessage.
C16_UnparseableDropped ==
    [][ (ev'.kind = "message" /\ ev'.message.type = "unparseable")
        => /\ connectionState' = connectionState
           /\ mobileClients' = mobileClients
           /\ clientSnapshots' = clientSnapshots
           /\ heartbeatInterval' = heartbeatInterval
           /\ reconnectAttempts' = reconnectAttempts
           /\ timers' = timers
           /\ socket' = socket
           /\ others' = others
           /\ sessionCode' = sessionCode
           /\ sent' = <<>>
           /\ ~ev'.thrown
      ]_vars

\* the frame arrives in PLAY with the heartbeat running and both companions
\* tracked
C16_Witness ==
    /\ ev.kind = "message"
    /\ ev.message.type = "unparseable"
    /\ connectionState = "PLAY"
    /\ heartbeatInterval
    /\ DOMAIN mobileClients = {"m1", "m2"}
    /\ socket = "OPEN"

\* C17: a SETUP:ACTOR:ACK from a sender that is not tracked (the handler
\* adds none, so not tracked afterwards either) or for an actorId that names
\* no actor, and a SETUP:REQ:ACTOR for an unknown actor, are ignored: no
\* call of updateConnectionState changes the state and nothing is sent.
C17_StaleSetupIgnored ==
    ( /\ ev.kind = "message"
      /\ \/ /\ ev.message.type = "SETUP:ACTOR:ACK"
            /\ \/ ev.message.from \notin DOMAIN mobileClients
               \/ ev.message.arg \notin GameActors
         \/ /\ ev.message.type = "SETUP:REQ:ACTOR"
            /\ ev.message.arg \notin GameActors )
    => /\ sent = <<>>
       /\ \A i \in DOMAIN trail : trail[i][1] = trail[i][2]

\* C18: a HEARTBEAT handled while the handler's transport is open is
\* answered, within the same handler run, with exactly one PONG and nothing
\* else, in every connection state; connectionState, the companions, their
\* snapshots, the timers and the transports stay as they were.
C18_HeartbeatAnswered ==
    [][ ( /\ ev'.kind = "message"
          /\ ev'.message.type = "HEARTBEAT"
          /\ socket = "OPEN" )
        => /\ Len(sent') = 1
           /\ sent'[1].type = "PONG"
           /\ connectionState' = connectionState
           /\ mobileClients' = mobileClients
           /\ clientSnapshots' = clientSnapshots
           /\ heartbeatInterval' = heartbeatInterval
           /\ reconnectAttempts' = reconnectAttempts
           /\ timers' = timers
           /\ socket' = socket
           /\ others' = others
      ]_vars

\* a HEARTBEAT answered before the session has reached PLAY
C18_Witness ==
    /\ ev.kind = "message"
    /\ ev.message.type = "HEARTBEAT"
    /\ Len(sent) = 1
    /\ sent[1].type = "PONG"
    /\ connectionState = "SETUP"

----------------------------------------------------------------------------
(* SpecDiff: deepDiff and applyDiff on pairs of snapshots                  *)

MaxNumber == 2

Number(n) == Prim("n:" \o ToString(n))
Numbers == {Number(n) : n \in 1..MaxNumber}
KeyA == <<"a">>
KeyB == <<"b">>
KeyC == <<"c">>
KeyAdotB == <<"a", ".", "b">>

\* the values of a property: numbers, null, arrays, plain objects
Fields ==
    Numbers \cup {Prim("null")}
    \cup {Arr(<<x>>) : x \in Numbers}
    \cup {Obj(<<>>)} \cup {Obj(<<Item(KeyB, x)>>) : x \in Numbers}
    \cup {Obj(<<Item(KeyB, x), Item(KeyC, Number(1))>>) : x \in Numbers}

Keyed(key, values) == {<<>>} \cup {<<Item(key, v)>> : v \in values}

\* objects with the properties a and a.b, and values that are no objects
Snapshots ==
    {Obj(a \o d) : a \in Keyed(KeyA, Fields), d \in Keyed(KeyAdotB, Numbers)}
    \cup Numbers \cup {Arr(<<x>>) : x \in Numbers}

handlerVars ==
    <<socket, others, sessionCode, connectionState, reconnectAttempts,
      heartbeatInterval, mobileClients, clientSnapshots, timers, sessionFlag,
      sent, ev, trail, scheduled, userDisconnected>>

\* a caller holds two snapshots; same: both are one object
InitDiff ==
    /\ InitHandler
    /\ InitMageHand
    /\ SCHEMAS = ShippedSchemas /\ call = NoCall
    /\ InitRoller
    /\ \E A \in Snapshots, B \in Snapshots, same \in BOOLEAN :
          /\ same => A = B
          /\ patch = [NoPatch EXCEPT !.stage = "given", !.oldObj = A,
                                     !.newObj = B, !.same = same]

\* diff = deepDiff(oldObj, newObj)
DeepDiff ==
    /\ patch.stage = "given"
    /\ patch' = [patch EXCEPT !.stage = "diffed",
                    !.diff = deepDiff(patch.oldObj, patch.newObj, <<>>, patch.same)]
    /\ UNCHANGED <<handlerVars, SCHEMAS, call, characterData, update, roller>>

\* result = applyDiff(oldObj, diff)
ApplyDiff ==
    /\ patch.stage = "diffed"
    /\ patch' = [patch EXCEPT !.stage = "applied",
                    !.result = applyDiff(patch.oldObj, patch.diff)]
    /\ UNCHANGED <<handlerVars, SCHEMAS, call, characterData, update, roller>>

NextDiff == DeepDiff \/ ApplyDiff

SpecDiff == InitDiff /\ [][NextDiff]_vars

----------------------------------------------------------------------------
(* Claims checked under SpecDiff                                           *)

\* C19: for every pair of snapshots (A, B), applyDiff(A, deepDiff(A, B))
\* returns a value that is deep-equal to B
C19_RoundTrip ==
    patch.stage = "applied" =>
        /\ ~patch.result.threw
        /\ DeepEqual(patch.result.value, patch.newObj)

\* C20: deepDiff of a snapshot with itself, or with a structurally equal
\* copy of itself, is the empty diff
C20_EqualInputsEmptyDiff ==
    (patch.stage \in {"diffed", "applied"} /\ DeepEqual(patch.oldObj, patch.newObj))
        => patch.diff = <<>>

\* a copy (not the same object) of a snapshot with a nested object was diffed
C20_Witness ==
    /\ patch.stage = "diffed"
    /\ ~patch.same
    /\ patch.oldObj = Obj(<<Item(KeyA, Obj(<<Item(KeyB, Number(1))>>)),
                           Item(KeyAdotB, Number(2))>>)
    /\ patch.newObj = patch.oldObj
    /\ patch.diff = <<>>

\* the key paths of the snapshots: one key, or a key of a nested object
KeyPaths ==
    LET Keys == {KeyA, KeyB, KeyC, KeyAdotB} IN
    {<<k>> : k \in Keys} \cup {<<k, l>> : k \in Keys, l \in Keys}

\* the value at a key path, undefined where there is none
RECURSIVE At(_, _)
At(value, keys) ==
    IF keys = <<>> THEN value
    ELSE IF isPrimitive(value) THEN UndefinedValue
    ELSE At(GetKey(value, Head(keys)), Tail(keys))

\* the dotted path of a key path
RECURSIVE Dotted(_)
Dotted(keys) ==
    IF Len(keys) = 1 THEN keys[1] ELSE keys[1] \o <<".">> \o Dotted(Tail(keys))

IsPlain(value) == value.t = "obj"

\* the key path lies in nested plain structures of both snapshots, its
\* value is no plain structure in both, and its value differs
Differs(A, B, keys) ==
    /\ \A n \in 0..(Len(keys) - 1) :
          IsPlain(At(A, SubSeq(keys, 1, n))) /\ IsPlain(At(B, SubSeq(keys, 1, n)))
    /\ ~(IsPlain(At(A, keys)) /\ IsPlain(At(B, keys)))
    /\ ~DeepEqual(At(A, keys), At(B, keys))

\* the entry the differing value at a key path is reported with
EntryOf(A, B, keys) ==
    LET old == At(A, keys)
        new == At(B, keys)
    IN  Change(Dotted(keys),
               IF old = UndefinedValue THEN "add"
               ELSE IF new = UndefinedValue THEN "delete" ELSE "update",
               old, new)

----------------------------------------------------------------------------
(* SpecRegistry: canMigrate, migrate and validate on bounded registries    *)

MaxSchemas == 3

RegistryVersions == {V100, V101, V110, V200}
InputVersions == RegistryVersions \cup {V10, Vlatest}

\* the tables of at most MaxSchemas versions, in every order of insertion,
\* each version with or without migration function
Registries ==
    UNION {{schemas \in [1..n -> [version : RegistryVersions, migration : BOOLEAN]] :
               \A i, j \in 1..n : schemas[i].version = schemas[j].version => i = j}
           : n \in 1..MaxSchemas}

AllFields == {"id", "name", "type", "combat", "abilities", "skills"}
FieldSets == {AllFields, AllFields \ {"id"}, AllFields \ {"combat"}, {}}

MigrateInputs ==
    {NullData} \cup {ObjData(tag, AllFields) : tag \in InputVersions \cup {NoTag}}
ValidateInputs ==
    {NullData, PrimData}
    \cup {ObjData(tag, fields) : tag \in {NoTag, V100, V200}, fields \in FieldSets}

InitRegistry ==
    /\ InitHandler /\ InitMageHand /\ InitRoller
    /\ patch = NoPatch
    /\ SCHEMAS \in Registries
    /\ \/ \E from \in InputVersions, to \in InputVersions :
             call = [NoCall EXCEPT !.op = "canMigrate", !.stage = "given",
                                   !.fromVersion = from, !.toVersion = to]
       \/ \E data \in MigrateInputs, to \in InputVersions :
             call = [NoCall EXCEPT !.op = "migrate", !.stage = "given",
                                   !.data = data, !.toVersion = to]
       \/ \E data \in ValidateInputs, version \in {V100, V200} :
             call = [NoCall EXCEPT !.op = "validate", !.stage = "given",
                                   !.data = data, !.toVersion = version]

\* SchemaRegistry.canMigrate(fromVersion, toVersion)
CanMigrate ==
    /\ call.op = "canMigrate" /\ call.stage = "given"
    /\ call' = [call EXCEPT !.stage = "done",
                   !.result = [NoResult EXCEPT !.truth =
                       canMigrate(SCHEMAS, call.fromVersion, call.toVersion)]]
    /\ UNCHANGED <<handlerVars, patch, SCHEMAS, characterData, update, roller>>

\* SchemaRegistry.migrate(data, targetVersion)
Migrate ==
    /\ call.op = "migrate" /\ call.stage = "given"
    /\ LET result == migrate(SCHEMAS, call.data, call.toVersion) IN
       call' = [call EXCEPT !.stage = "done", !.result = result]
    /\ UNCHANGED <<handlerVars, patch, SCHEMAS, characterData, update, roller>>

\* SchemaRegistry.validate(data, version)
Validate ==
    /\ call.op = "validate" /\ call.stage = "given"
    /\ call' = [call EXCEPT !.stage = "done",
                   !.result = validate(call.data, call.toVersion)]
    /\ UNCHANGED <<handlerVars, patch, SCHEMAS, characterData, update, roller>>

NextRegistry == CanMigrate \/ Migrate \/ Validate

SpecRegistry == InitRegistry /\ [][NextRegistry]_vars

----------------------------------------------------------------------------
(* Claims checked under SpecRegistry                                       *)

Registered(schemas, version) ==
    \E i \in 1..Len(schemas) : schemas[i].version = version

\* the version order: major, then minor, then patch
Precedes(v, w) ==
    \E i \in 1..3 :
        /\ VersionPart(v, i) < VersionPart(w, i)
        /\ \A j \in 1..(i - 1) : VersionPart(v, j) = VersionPart(w, j)

\* version lies in the range from (exclusive) to (inclusive)
InRange(from, to, version) == Precedes(from, version) /\ ~Precedes(to, version)

\* C22: canMigrate(from, to) is true if and only if both versions are
\* registered, from is strictly older than to, and every registered version
\* in the range (from, to] has a migration function; without the migration
\* of one version it is false exactly for the pairs whose range holds it
C22_CanMigrateIffChain ==
    (call.op = "canMigrate" /\ call.stage = "done") =>
        LET from == call.fromVersion
            to == call.toVersion
        IN  /\ call.result.truth =
                  (/\ Registered(SCHEMAS, from) /\ Registered(SCHEMAS, to)
                   /\ Precedes(from, to)
                   /\ \A i \in 1..Len(SCHEMAS) :
                         InRange(from, to, SCHEMAS[i].version) => SCHEMAS[i].migration)
            /\ \A m \in 1..Len(SCHEMAS) :
                  SCHEMAS[m].migration =>
                      canMigrate([SCHEMAS EXCEPT ![m].migration = FALSE], from, to)
                      = (call.result.truth /\ ~InRange(from, to, SCHEMAS[m].version))

\* versions 1.0.0, 1.0.1 and 2.0.0 with migrations for the later two:
\* canMigrate(1.0.0, 2.0.0) gave true
C22_Witness ==
    /\ call.op = "canMigrate" /\ call.stage = "done"
    /\ SCHEMAS = <<[version |-> V200, migration |-> TRUE],
                   [version |-> V100, migration |-> FALSE],
                   [version |-> V101, migration |-> TRUE]>>
    /\ call.fromVersion = V100 /\ call.toVersion = V200
    /\ call.result.truth

\* C23: migrate(snapshot, t) for a snapshot tagged v returns a value exactly
\* when canMigrate(v, t) is true and raises in every other case
C23_MigrateIffCanMigrate ==
    (call.op = "migrate" /\ call.stage = "done" /\ call.data.kind = "obj"
       /\ call.data._v # NoTag)
    => (~call.result.threw) = canMigrate(SCHEMAS, call.data._v, call.toVersion)

\* C24: migrate either returns a snapshot to which the migration functions
\* of all versions from the source (exclusive) to the target (inclusive)
\* were applied in version order, or raises; the snapshot of the caller is
\* unchanged in both cases
C24_MigrateAtomic ==
    (call.op = "migrate" /\ call.stage = "done") =>
        LET result == call.result
            applied == result.value.applied
        IN  /\ result.data = call.data
            /\ (result.threw /\ call.data.kind = "obj") =>
                  result.error \in {"Data does not contain schema version",
                                    "Unknown schema version",
                                    "Unknown target version", "No migration path"}
            /\ ~result.threw =>
                  /\ {applied[i] : i \in 1..Len(applied)}
                       = {SCHEMAS[i].version : i \in
                             {j \in 1..Len(SCHEMAS) :
                                 InRange(call.data._v, call.toVersion, SCHEMAS[j].version)}}
                  /\ \A i, j \in 1..Len(applied) : i < j => Precedes(applied[i], applied[j])
                  /\ result.value._v =
                        (IF applied = <<>> THEN call.data._v ELSE call.toVersion)

\* a snapshot of version 1.0.0 was migrated to 2.0.0 over 1.1.0
C24_Witness ==
    /\ call.op = "migrate" /\ call.stage = "done"
    /\ call.data._v = V100 /\ call.toVersion = V200
    /\ ~call.result.threw
    /\ call.result.value.applied = <<V110, V200>>
    /\ call.result.value._v = V200

\* C25: validate returns a result {valid, errors, warnings} for every input
\* and never raises, also for data that is absent or no structure; valid is
\* true exactly when errors is empty, a missing version tag is an error, a
\* tag that differs from the requested version only a warning
C25_ValidateNeverRaises ==
    (call.op = "validate" /\ call.stage = "done") =>
        LET result == call.result IN
        /\ ~result.threw
        /\ result.truth = (result.errors = <<>>)
        /\ call.data._v = NoTag => InSeq("_v", result.errors)
        /\ (call.data._v # NoTag /\ call.data._v # call.toVersion) =>
              /\ result.warnings # <<>>
              /\ ~InSeq("_v", result.errors)

----------------------------------------------------------------------------
(* SpecSync: changes of characters while the handler connects and plays    *)

\* what the extractor gives: null, or a snapshot
SyncSnapshots == {Obj(<<Item(KeyA, Number(n))>>) : n \in 1..MaxNumber}
Extractions == {Prim("null")} \cup SyncSnapshots

SyncMessages ==
    {[Msg("PRE:JOINED", Undefined, Undefined) EXCEPT
          !.arg = <<[clientType |-> "mobile", clientId |-> "m1"],
                    [clientType |-> "foundry", clientId |-> "host"]>>],
     Msg("SETUP:ACTOR:ACK", "m1", "a1")}

\* the hooks updateActor, updateItem and the like, for a change that
\* shouldSync lets pass
UpdateActor ==
    \E actorId \in Characters, extractedData \in Extractions :
        /\ isConnected(Self)
        /\ LET u == handleActorUpdate(Self, characterData, actorId, extractedData) IN
           /\ characterData' = u.characterData
           /\ update' = [stage |-> "handled", actorId |-> actorId,
                         extractedData |-> extractedData, before |-> characterData,
                         connected |-> isConnected(Self), diff |-> u.diff,
                         caught |-> u.thrown]
           /\ Commit(u.h, Event("updateActor", 0, InMsg, u.h))

NextSync ==
    \/ ConnectToSession({CodeNYC})
    \/ DisconnectSession
    \/ SocketOpen
    \/ SocketMessage(SyncMessages)
    \/ SocketClose({1000})
    \/ UpdateActor

SpecSync == Init /\ [][NextSync]_vars

----------------------------------------------------------------------------
(* Claims checked under SpecSync                                           *)

\* C26: on a qualifying change, a full-sync message is sent if no snapshot
\* is cached for the entity; otherwise an update message with the diff is
\* sent if and only if the diff is not empty
C26_SyncMessageSent ==
    (/\ ev.kind = "updateActor" /\ update.stage = "handled"
     /\ ~Falsy(update.extractedData))
    => IF Falsy(update.before[update.actorId])
       THEN Len(sent) = 1
       ELSE (Len(sent) = 1) = (update.diff # <<>>)

\* C27: after a qualifying change whose extraction succeeds, the cache
\* entry of the entity is the new snapshot, whether or not a message was
\* sent; no other entry changes
C27_CacheHoldsNewSnapshot ==
    (update.stage = "handled" /\ ~Falsy(update.extractedData))
    => characterData = [update.before EXCEPT ![update.actorId] = update.extractedData]

\* a changed snapshot was stored over a cached one although sending failed
C27_Witness ==
    /\ ev.kind = "updateActor" /\ update.stage = "handled"
    /\ update.caught
    /\ sent = <<>>
    /\ ~Falsy(update.before[update.actorId])
    /\ ~Falsy(update.before["a2"])
    /\ update.actorId = "a1"
    /\ update.diff # <<>>
    /\ characterData["a1"] = update.extractedData
    /\ characterData["a2"] = update.before["a2"]

----------------------------------------------------------------------------
(* SpecStartup: ready() with the session record an earlier run left, then  *)
(* the calls of the connection panel with well-formed and other codes      *)

\* the session records in the storage at startup
SavedSessions ==
    {NoFlag}
    \cup [present : {TRUE}, code : {NullCode, CodeNYC, CodeZZZ}, valid : BOOLEAN,
          timestamp : {0, Now - SessionTTL - 1, Now - SessionTTL,
                       Now - SessionTTL + 1, Now}]

InitStartup ==
    /\ socket = "null"
    /\ others = EmptyBag
    /\ sessionCode = NullCode
    /\ connectionState = "DISCONNECTED"
    /\ reconnectAttempts = 0
    /\ heartbeatInterval = FALSE
    /\ mobileClients = EmptyMap
    /\ clientSnapshots = EmptyMap
    /\ timers = EmptyBag
    /\ sessionFlag \in SavedSessions
    /\ sent = <<>>
    /\ trail = <<>>
    /\ scheduled = 0
    /\ userDisconnected = FALSE
    /\ ev = [kind |-> "init", code |-> 0, message |-> InMsg, invoked |-> "none",
             thrown |-> FALSE, returned |-> Undefined]
    /\ InitMageHand
    /\ patch = NoPatch /\ SCHEMAS = ShippedSchemas /\ call = NoCall
    /\ InitRoller

\* the hook 'ready', once, before the panel exists
Ready ==
    /\ ev.kind = "init"
    /\ LET h == ready(Self)
       IN  Finish(h, Event("ready", 0, InMsg, h))

NextStartup ==
    \/ Ready
    \/ (ev.kind # "init" /\ ConnectToSession(SessionCodes))
    \/ (ev.kind # "init" /\ DisconnectSession)
    \/ (ev.kind # "init" /\ SocketOpen)
    \/ (ev.kind # "init" /\ SocketClose({1000, 4000}))

SpecStartup == InitStartup /\ [][NextStartup]_vars

----------------------------------------------------------------------------
(* Claims checked under SpecStartup                                        *)

\* the first group of a code is one of the region tags of the relay
RecognizedRegion(code) ==
    \E region \in {<<"N","Y","C">>, <<"S","F","O">>, <<"A","M","S">>, <<"L","O","N">>,
                   <<"F","R","A">>, <<"T","O","R">>, <<"S","G","P">>, <<"B","L","R">>} :
        Len(code) >= 3 /\ SubSeq(code, 1, 3) = region

\* three groups, a recognized region first, then two groups of 3
\* alphanumeric characters
AcceptableCode(code) ==
    /\ Len(code) = 11
    /\ RecognizedRegion(code)
    /\ code[4] = "-" /\ code[8] = "-"
    /\ \A i \in {5, 6, 7, 9, 10, 11} : code[i] \in UpperCase \cup Digits

\* C28: connectToSession rejects every code that is not a recognized region
\* and two groups of 3 alphanumeric characters: it persists no session
\* record, opens no transport and leaves the connection DISCONNECTED
C28_BadCodeRejected ==
    [][(ev'.kind = "connectToSession" /\ sessionFlag' # sessionFlag)
         => AcceptableCode(sessionFlag'.code)]_vars

\* C29: at startup a saved session record triggers a connect if and only
\* if it is valid, carries a code and is less than 24 hours old; a valid
\* record of 24 hours or more is cleared and no connection is attempted
C29_AutoConnectWithinTTL ==
    [][ev'.kind = "ready" =>
         LET usable == sessionFlag.present /\ sessionFlag.valid
                       /\ sessionFlag.code # NullCode
             fresh == Now - sessionFlag.timestamp < SessionTTL
         IN  /\ (sessionCode' # NullCode) = (usable /\ fresh)
             /\ (usable /\ fresh) => sessionCode' = sessionFlag.code
             /\ (usable /\ fresh /\ RecognizedRegion(sessionFlag.code)) =>
                   socket' = "CONNECTING" /\ connectionState' = "JOINING"
             /\ (usable /\ ~fresh) =>
                   /\ sessionFlag' = NoFlag
                   /\ socket' = "null" /\ connectionState' = "DISCONNECTED"
             /\ ~(usable /\ ~fresh) => sessionFlag' = sessionFlag]_vars

\* a record one millisecond short of 24 hours started a connection
C29_Witness ==
    /\ ev.kind = "ready"
    /\ sessionFlag.valid /\ sessionFlag.code = CodeNYC
    /\ sessionFlag.timestamp = Now - SessionTTL + 1
    /\ socket = "CONNECTING" /\ connectionState = "JOINING"
    /\ sessionCode = CodeNYC

----------------------------------------------------------------------------
(* Further claims checked under SpecLink                                   *)

\* C30: while a tracked remote client is in PLAY and stays tracked in PLAY,
\* a handshake or setup message from another client leaves the global
\* connectionState PLAY
C30_PlayHeldByClient ==
    [][(/\ ev'.kind = "message"
        /\ ev'.message.type \in {"INIT:HELO", "INIT:HELO:ACK", "SETUP:REQ:PLAYERS",
                                 "SETUP:REQ:ACTORS", "SETUP:REQ:ACTOR",
                                 "SETUP:ACTOR:ACK"}
        /\ connectionState = "PLAY"
        /\ \E c \in DOMAIN mobileClients \cap DOMAIN mobileClients' :
              /\ c # ev'.message.from
              /\ mobileClients[c].state = "PLAY"
              /\ mobileClients'[c].state = "PLAY")
       => connectionState' = "PLAY"]_vars

----------------------------------------------------------------------------
(* The heartbeat timer and the connection state, under SpecLink.           *)

\* C35: in every reachable state an active heartbeat timer implies that
\* connectionState is PLAY, and a heartbeat tick is only ever handled (and a
\* HEARTBEAT only ever emitted) while connectionState is PLAY.
C35_TimerOnlyInPlay ==
    /\ heartbeatInterval => connectionState = "PLAY"
    /\ ev.kind = "heartbeat" => connectionState = "PLAY"

C35_Witness ==
    /\ ev.kind = "heartbeat"
    /\ heartbeatInterval
    /\ Len(sent) > 0
    /\ sent[Len(sent)].type = "HEARTBEAT"

----------------------------------------------------------------------------
(* Further claims checked under Spec *)

\* the number of transports created by the handler that are connecting or
\* open; each of them has the handler's four callbacks attached
OpenOrConnecting(sock, oth) ==
    (IF sock \in {"CONNECTING", "OPEN"} THEN 1 ELSE 0)
        + CopiesIn("CONNECTING", oth) + CopiesIn("OPEN", oth)

\* C36: in every reachable state at most one transport created by the
\* handler is open or connecting: neither connect() nor a firing reconnect
\* timer creates a second transport while an earlier one is live.
C36_SingleLiveTransport ==
    OpenOrConnecting(socket, others) <= 1

----------------------------------------------------------------------------
(* SpecClients: two companions, each walking through its own handshake     *)
(* over one session, and the host sending messages about an actor.         *)

ClientPhaseMessages ==
    {Msg("PRE:JOINED", Undefined,
         <<[clientType |-> "mobile", clientId |-> "m1"],
           [clientType |-> "mobile", clientId |-> "m2"]>>)}
    \cup {[Msg("INIT:HELO", f, Undefined) EXCEPT
               !.capabilities = Capabilities(ourSchema, <<"combat">>)] :
             f \in ClientIds}
    \cup {Msg("INIT:HELO:ACK", f, Undefined) : f \in ClientIds}
    \cup {Msg("INIT:REQ:STATE", f, Undefined) : f \in ClientIds}
    \cup {Msg("SETUP:REQ:ACTORS", f, "p1") : f \in ClientIds}
    \cup {Msg("SETUP:ACTOR:ACK", f, "a1") : f \in ClientIds}

\* KillTracker.sendKillToMobile, or a caller that passes no actorId
SendActorMessage ==
    \E actorId \in GameActors \cup {Undefined} :
        LET h == sendActorMessage(Self, [OutMsg EXCEPT !.type = "PLAY:KILL:TRACKED",
                                                       !.data = actorId])
        IN  Finish(h, Event("sendActorMessage", 0,
                            Msg("PLAY:KILL:TRACKED", Undefined, actorId), h))

SendActorUpdate ==
    \E actorId \in GameActors :
        LET h == sendActorUpdate(Self, actorId)
        IN  Finish(h, Event("sendActorUpdate", 0,
                            Msg("PLAY:UPDATE:ACTOR", Undefined, actorId), h))

NextClients ==
    \/ ConnectToSession({CodeNYC})
    \/ DisconnectSession
    \/ SocketOpen
    \/ SocketMessage(ClientPhaseMessages)
    \/ SocketClose({1000})
    \/ HeartbeatTimer
    \/ SendActorMessage
    \/ SendActorUpdate

SpecClients == Init /\ [][NextClients]_vars

----------------------------------------------------------------------------
(* Claims checked under SpecClients *)

HandshakeTypes ==
    {"INIT:HELO", "INIT:HELO:ACK", "INIT:REQ:STATE", "SETUP:REQ:ACTORS",
     "SETUP:ACTOR:ACK"}

\* C31: handling INIT:HELO, INIT:HELO:ACK, INIT:REQ:STATE, SETUP:REQ:ACTORS or
\* SETUP:ACTOR:ACK from client X leaves every other tracked client Y tracked,
\* with the phase and the stateData it had.
C31_OtherClientsUntouched ==
    [][ (ev'.kind = "message" /\ ev'.message.type \in HandshakeTypes)
            => \A y \in DOMAIN mobileClients \ {ev'.message.from} :
                  /\ y \in DOMAIN mobileClients'
                  /\ mobileClients'[y] = mobileClients[y] ]_vars

\* two clients are tracked in different phases, the last message came from
\* the one and the other is past its first phase
C31_Witness ==
    /\ ev.kind = "message"
    /\ ev.message.type \in HandshakeTypes
    /\ ev.message.from = "m1"
    /\ DOMAIN mobileClients = {"m1", "m2"}
    /\ mobileClients["m1"].state = "SETUP"
    /\ mobileClients["m2"].state = "PLAY"
    /\ mobileClients["m2"].stateData.selectedActor # Null

\* the tracked client c holds the actor: it acknowledged it with
\* SETUP:ACTOR:ACK, which stored the actor as its selectedActor
Controls(c, actorId) ==
    mobileClients[c].stateData.selectedActor = extractCharacterData(actorId)

\* C33: sendActorMessage(message) transmits the message and returns true
\* exactly when message.actorId is set, the handler is connected and some
\* tracked client controls that actor; otherwise it sends nothing and
\* returns false.
C33_ActorMessageFilter ==
    ev.kind = "sendActorMessage" =>
        LET pass == /\ ev.message.arg # Undefined
                    /\ isConnected(Self)
                    /\ \E c \in DOMAIN mobileClients : Controls(c, ev.message.arg)
        IN  /\ ev.returned = (IF pass THEN "true" ELSE "false")
            /\ Len(sent) = (IF pass THEN 1 ELSE 0)

\* C34: INIT:REQ:STATE from X, handled while the handler's transport is
\* open, is answered with exactly one message, an INIT:SEND:STATE whose
\* currentState is the phase X is tracked in; an X that was not tracked is
\* tracked afterwards.
C34_StateReply ==
    (ev.kind = "message" /\ ev.message.type = "INIT:REQ:STATE" /\ socket = "OPEN")
        => /\ ev.message.from \in DOMAIN mobileClients
           /\ Len(sent) = 1
           /\ sent[1].type = "INIT:SEND:STATE"
           /\ sent[1].state = mobileClients[ev.message.from].state

\* C37: a tracked client enters PLAY only from SETUP: no step takes a client
\* tracked in JOINED or INIT to PLAY.
C37_ClientPlayOnlyFromSetup ==
    [][ \A c \in DOMAIN mobileClients \cap DOMAIN mobileClients' :
            (mobileClients'[c].state = "PLAY" /\ mobileClients[c].state # "PLAY")
                => mobileClients[c].state = "SETUP" ]_vars

----------------------------------------------------------------------------
(* Further claims checked under SpecDiff *)

\* the path p, followed by a dot, begins the path q
ProperDottedPrefix(p, q) ==
    /\ Len(q) > Len(p) + 1
    /\ SubSeq(q, 1, Len(p)) = p
    /\ q[Len(p) + 1] = "."

\* C38: in every diff that deepDiff produced, no entry's path is a proper
\* dotted prefix of another entry's path.
C38_NoNestedPaths ==
    patch.stage \in {"diffed", "applied"} =>
        \A i, j \in 1..Len(patch.diff) :
            ~ProperDottedPrefix(patch.diff[i].path, patch.diff[j].path)

----------------------------------------------------------------------------
(* Further claims checked under SpecRegistry *)

----------------------------------------------------------------------------
(* SpecRoller: calls of rollAbilityTest, the rolls they start, the chat     *)
(* messages the game creates and the timeouts, in every interleaving.      *)
(* Tick moves Date.now() on: two calls without a Tick between them read    *)
(* the same millisecond. A timeout fires after the clock has moved.        *)

Chat(actor, rolls, total) == [actor |-> actor, rolls |-> rolls, total |-> total]

ChatMessages ==
    {Chat(a, TRUE, 7) : a \in Characters \cup {"a9"}} \cup {Chat("a1", FALSE, 0)}

RollInputs ==
    {<<a, "str">> : a \in Characters} \cup {<<"a9", "str">>, <<"a1", "luck">>}

RollerStep(b, kind, r, message) ==
    /\ roller' = [b EXCEPT !.last = [kind |-> kind, request |-> r, message |-> message]]
    /\ UNCHANGED <<handlerVars, patch, SCHEMAS, call, characterData, update>>

RollAbilityTest ==
    \E input \in RollInputs :
        LET r == roller.calls + 1 IN
        /\ r \in Rolls
        /\ roller.now < MaxClock
        /\ RollerStep(rollAbilityTest([roller EXCEPT !.calls = r], r, input[1], input[2]),
                      "roll", r, NoChat)

Performed(r) ==
    /\ roller.requests[r].stage = "performing"
    /\ RollerStep(performed(roller, r), "performed", r, NoChat)

PerformFailed(r) ==
    /\ roller.requests[r].stage = "performing"
    /\ RollerStep(performFailed(roller, r), "failed", r, NoChat)

ResumeRoll(r) ==
    /\ roller.requests[r].stage = "awaiting"
    /\ roller.requests[r].promise # "pending"
    /\ RollerStep(resumeRoll(roller, r), "resume", r, NoChat)

CreateChatMessage ==
    \E message \in ChatMessages :
        RollerStep(createChatMessage(roller, message), "chat", 0, message)

RollTimer ==
    /\ roller.timers # <<>>
    /\ LET r == Head(roller.timers) IN
       /\ roller.now > roller.requests[r].rollId[4]
       /\ RollerStep(rollTimeout([roller EXCEPT !.timers = Tail(@)], r),
                     "timeout", r, NoChat)

Tick ==
    /\ roller.now < MaxClock
    /\ RollerStep([roller EXCEPT !.now = @ + 1], "tick", 0, NoChat)

NextRoller ==
    \/ RollAbilityTest
    \/ \E r \in Rolls : Performed(r)
    \/ \E r \in Rolls : PerformFailed(r)
    \/ \E r \in Rolls : ResumeRoll(r)
    \/ CreateChatMessage
    \/ RollTimer
    \/ Tick

SpecRoller == Init /\ [][NextRoller]_vars

\* the event loop runs every callback that is due: time passes, timers
\* fire, a started roll returns or raises, a settled await is resumed
SpecRollerFair ==
    /\ SpecRoller
    /\ WF_vars(Tick)
    /\ WF_vars(RollTimer)
    /\ \A r \in Rolls : WF_vars(Performed(r) \/ PerformFailed(r))
    /\ \A r \in Rolls : WF_vars(ResumeRoll(r))

----------------------------------------------------------------------------
(* Claims checked under SpecRollerFair and SpecRoller *)

\* C32: every call of rollAbilityTest that waits for its chat confirmation
\* completes: it returns the captured result or null.
C32_EveryRollCompletes ==
    \A r \in Rolls :
        (roller.requests[r].stage = "awaiting")
            ~> (roller.requests[r].stage = "returned")

\* the calls whose promise is unsettled, for the actor (calls are numbered
\* in the order of their registration)
PendingFor(actor) ==
    {r \in Rolls : /\ roller.requests[r].promise = "pending"
                   /\ roller.requests[r].actor = actor}

\* C40: a roll chat message of an actor with pending roll requests resolves
\* exactly one of them, the earliest registered, with the result parsed from
\* the message, and leaves every other request (of this and of every other
\* actor) as it was.
C40_EarliestPendingResolved ==
    [][ (/\ roller'.last.kind = "chat"
         /\ roller'.last.message.rolls
         /\ PendingFor(roller'.last.message.actor) # {})
        => LET message == roller'.last.message
               first == CHOOSE r \in PendingFor(message.actor) :
                            \A q \in PendingFor(message.actor) : r <= q
           IN  /\ roller'.requests[first].promise = "resolved"
               /\ roller'.requests[first].settled =
                      RollResult(message.actor, message.total)
               /\ \A q \in Rolls \ {first} :
                      roller'.requests[q] = roller.requests[q] ]_vars

====
